---- MODULE Spec2Model ----
(***************************************************************************)
(* Response normalization layer of the stockbit dashboard: the broker      *)
(* activity serializer and the watchlist serializer, with the numeric      *)
(* parsing and formatting helpers they are built on; the HTML locator and  *)
(* table parser; the routing endpoint /api/scrape with its upstream        *)
(* fetchers; the token refresh; and the fetch logic of the dashboard pages. *)
(*                                                                         *)
(* Text is a sequence of one-character strings, so that parsing and        *)
(* formatting are computed character by character as the code does.        *)
(* A JavaScript number is a record [k, m, e]: k = "fin" is the decimal     *)
(* m * 10^e (m carries the sign and no trailing zero; zero is m = 0,       *)
(* e = 0), k = "inf" is +Infinity (m = 1) or -Infinity (m = -1), k = "nan" *)
(* is NaN.  0 and -0 are one value, as they are for ===.  Sums and         *)
(* differences are exact decimals: the binary rounding of a double is not  *)
(* modelled.                                                               *)
(***************************************************************************)
EXTENDS Integers, Sequences, FiniteSets, TLC

VARIABLES
    token,      \* the argument handed to parseScientific
    parsed,     \* the outcome of parseScientific(token)
    rawBuy,     \* one upstream buy record
    rawSell,    \* one upstream sell record
    buyTx,      \* the outcome of serializeBuyTransaction(rawBuy)
    sellTx,     \* the outcome of serializeSellTransaction(rawSell)
    rawBroker,  \* one upstream broker-activity response
    activity,   \* the outcome of serializeBrokerActivity(rawBroker)
    summary,    \* the outcome of serializeBrokerActivitySummary(rawBroker)
    rawItem,    \* one upstream watchlist stock item
    stock,      \* the outcome of serializeStock(rawItem)
    rawWatch,   \* one upstream watchlist response
    watchlist,  \* the outcome of serializeWatchlist(rawWatch)
    call,       \* a call of one of the other functions: its name and argument
    outcome,    \* the outcome of that call
    api,        \* one request to /api/scrape: the handler's position and effects
    session,    \* the tokens of AuthContext and its refresh requests
    ui          \* one dashboard page: its React state and requests in flight

vars == <<token, parsed, rawBuy, rawSell, buyTx, sellTx, rawBroker, activity,
          summary, rawItem, stock, rawWatch, watchlist, call, outcome,
          api, session, ui>>

\* The outcome of a call: not made yet, returned a value, or threw.
Idle == [status |-> "idle"]
Returned(v) == [status |-> "returned", value |-> v]
Threw == [status |-> "threw", error |-> "TypeError"]

\* An optional field or collection: absent, or present with a value.
None == <<>>
Some(v) == <<v>>

\* The element of a singleton set.  A local constant of the code is bound as
\* the element of a singleton ({body : x \in {e}}), so that e is evaluated
\* once however often the body reads x.
The(S) == CHOOSE x \in S : TRUE

----------------------------------------------------------------------------
(* Bounds of the model. *)

\* Every text of at most MaxTokLen characters over Alphabet is a token.
MaxTokLen == 3
\* A response carries at most MaxTx buy records and at most MaxTx sell records.
MaxTx == 2
\* A formatted value is a mantissa times a power of ten of at most MaxExp.
MaxExp == 12
\* Every text of at most MaxDateLen characters over DateAlphabet is a date code.
MaxDateLen == 8
\* A table cell stands in one of the columns 0..MaxCol.
MaxCol == 1
\* An array or object of leaves has at most MaxWidth members.
MaxWidth == 2
\* A section of a table holds at most MaxRows rows.
MaxRows == 2
\* An HTML text of sample tables holds at most MaxTables tables.
MaxTables == 2
\* A stock item carries at most MaxPrices intraday samples.
MaxPrices == 4
\* A watchlist response carries at most MaxStocks items.
MaxStocks == 3
\* refreshAccessToken is called at most MaxRefreshes times.
MaxRefreshes == 2
\* A page fetches at most MaxFetches times.
MaxFetches == 3

----------------------------------------------------------------------------
(* JavaScript numbers. *)

RECURSIVE Pow10(_)
Pow10(n) == IF n <= 0 THEN 1 ELSE 10 * Pow10(n - 1)

IntAbs(i) == IF i < 0 THEN -i ELSE i

RECURSIVE NumDigits(_)
NumDigits(n) == IF n < 10 THEN 1 ELSE 1 + NumDigits(n \div 10)

RECURSIVE StripZeros(_, _)
StripZeros(m, e) ==
    IF m # 0 /\ m % 10 = 0 THEN StripZeros(m \div 10, e + 1) ELSE <<m, e>>

Fin(m, e) ==
    IF m = 0 THEN [k |-> "fin", m |-> 0, e |-> 0]
    ELSE LET z == StripZeros(m, e) IN [k |-> "fin", m |-> z[1], e |-> z[2]]

NaN == [k |-> "nan", m |-> 0, e |-> 0]
PosInf == [k |-> "inf", m |-> 1, e |-> 0]
NegInf == [k |-> "inf", m |-> -1, e |-> 0]
Zero == Fin(0, 0)

isNaN(x) == x.k = "nan"
isFinite(x) == x.k = "fin"

\* -1, 0 or 1; NaN has no sign and is never asked for one.
Sign(x) == IF x.m < 0 THEN -1 ELSE IF x.m > 0 THEN 1 ELSE 0

\* The decimal order of magnitude of a finite non-zero x: 10^(Mag-1) <= |x| < 10^Mag.
Mag(x) == NumDigits(IntAbs(x.m)) + x.e

\* x < y for finite x and y of the same non-zero sign s, compared on magnitudes.
AbsLt(x, y) ==
    IF Mag(x) # Mag(y) THEN Mag(x) < Mag(y)
    ELSE LET e == IF x.e < y.e THEN x.e ELSE y.e
         IN  IntAbs(x.m) * Pow10(x.e - e) < IntAbs(y.m) * Pow10(y.e - e)

\* The < of the language: false when either side is NaN.
JsLt(x, y) ==
    IF isNaN(x) \/ isNaN(y) THEN FALSE
    ELSE IF x.k = "inf" \/ y.k = "inf"
         THEN IF x.k = "inf" /\ y.k = "inf" THEN x.m < y.m
              ELSE IF x.k = "inf" THEN x.m < 0 ELSE y.m > 0
    ELSE IF Sign(x) # Sign(y) THEN Sign(x) < Sign(y)
    ELSE IF Sign(x) = 0 THEN FALSE
    ELSE IF Sign(x) > 0 THEN AbsLt(x, y) ELSE AbsLt(y, x)

JsGt(x, y) == JsLt(y, x)
JsGe(x, y) == ~isNaN(x) /\ ~isNaN(y) /\ ~JsLt(x, y)
JsLe(x, y) == JsGe(y, x)

\* Unary minus.
JsNeg(x) == IF x.k = "nan" THEN NaN ELSE [x EXCEPT !.m = -x.m]

\* Math.abs
JsAbs(x) == IF x.k = "nan" THEN NaN ELSE [x EXCEPT !.m = IntAbs(x.m)]

\* Binary +
JsAdd(x, y) ==
    IF isNaN(x) \/ isNaN(y) THEN NaN
    ELSE IF x.k = "inf" /\ y.k = "inf" THEN (IF x.m = y.m THEN x ELSE NaN)
    ELSE IF x.k = "inf" THEN x
    ELSE IF y.k = "inf" THEN y
    ELSE IF x.m = 0 THEN y
    ELSE IF y.m = 0 THEN x
    ELSE LET e == IF x.e < y.e THEN x.e ELSE y.e
         IN  Fin(x.m * Pow10(x.e - e) + y.m * Pow10(y.e - e), e)

\* Binary -
JsSub(x, y) == JsAdd(x, JsNeg(y))

----------------------------------------------------------------------------
(* Text. *)

Chars(s) == [i \in 1..Len(s) |-> SubSeq(s, i, i)]

Digit == <<"0", "1", "2", "3", "4", "5", "6", "7", "8", "9">>
IsDigit(c) == \E i \in 1..10 : Digit[i] = c
DigitVal(c) == (CHOOSE i \in 1..10 : Digit[i] = c) - 1

\* The characters parseFloat skips before the numeral.
WhiteSpace == {" "}

\* The number of consecutive digits of s from position i on.
RECURSIVE DigitRun(_, _)
DigitRun(s, i) ==
    IF i <= Len(s) /\ IsDigit(s[i]) THEN 1 + DigitRun(s, i + 1) ELSE 0

\* The value of the n digits of s that start at position i.
RECURSIVE DigitsValue(_, _, _)
DigitsValue(s, i, n) ==
    IF n = 0 THEN 0 ELSE DigitsValue(s, i, n - 1) * 10 + DigitVal(s[i + n - 1])

RECURSIVE SkipSpace(_, _)
SkipSpace(s, i) ==
    IF i <= Len(s) /\ s[i] \in WhiteSpace THEN SkipSpace(s, i + 1) ELSE i

RECURSIVE DropTrailingZeros(_)
DropTrailingZeros(ds) ==
    IF ds # <<>> /\ ds[Len(ds)] = "0"
    THEN DropTrailingZeros(SubSeq(ds, 1, Len(ds) - 1)) ELSE ds

StartsWith(s, i, p) ==
    i + Len(p) - 1 <= Len(s) /\ SubSeq(s, i, i + Len(p) - 1) = p

\* The decimal m * 10^e as a double: beyond the largest double (1.797...e308) it
\* is an infinity, below the smallest subnormal (4.9e-324) it is zero.
ToDouble(m, e) ==
    LET x == Fin(m, e)
    IN  IF x.m = 0 THEN x
        ELSE IF Mag(x) > 309 \/ (Mag(x) = 309 /\ ~AbsLt(x, Fin(179769314, 300)))
             THEN (IF x.m < 0 THEN NegInf ELSE PosInf)
        ELSE IF Mag(x) < -323 THEN Zero
        ELSE x

\* The global parseFloat: leading white space is skipped, then the longest
\* prefix that is a StrDecimalLiteral is read, whatever follows it; NaN when
\* there is no such prefix.
parseFloat(s) ==
    LET i0 == SkipSpace(s, 1)
        neg == i0 <= Len(s) /\ s[i0] = "-"
        i1 == IF i0 <= Len(s) /\ s[i0] \in {"+", "-"} THEN i0 + 1 ELSE i0
        nInt == DigitRun(s, i1)
        iDot == i1 + nInt
        hasDot == iDot <= Len(s) /\ s[iDot] = "."
        nFrac == IF hasDot THEN DigitRun(s, iDot + 1) ELSE 0
        iExp == IF hasDot THEN iDot + 1 + nFrac ELSE iDot
        hasE == iExp <= Len(s) /\ s[iExp] \in {"e", "E"}
        iSgn == iExp + 1
        hasSgn == hasE /\ iSgn <= Len(s) /\ s[iSgn] \in {"+", "-"}
        iED == IF hasSgn THEN iSgn + 1 ELSE iSgn
        nExp == IF hasE THEN DigitRun(s, iED) ELSE 0
        expo == IF nExp = 0 THEN 0
                ELSE IF hasSgn /\ s[iSgn] = "-" THEN -DigitsValue(s, iED, nExp)
                ELSE DigitsValue(s, iED, nExp)
        ds == DropTrailingZeros(SubSeq(s, i1, i1 + nInt - 1)
                                \o SubSeq(s, iDot + 1, iDot + nFrac))
        mant == DigitsValue(ds, 1, Len(ds))
        scale == expo - nFrac + (nInt + nFrac - Len(ds))
    IN  IF StartsWith(s, i1, Chars("Infinity"))
        THEN (IF neg THEN NegInf ELSE PosInf)
        ELSE IF nInt + nFrac = 0 THEN NaN
        ELSE ToDouble(IF neg THEN -mant ELSE mant, scale)

----------------------------------------------------------------------------
(* Upstream scalar fields: a field is absent, null, a string or a number. *)

Undefined == [t |-> "undefined", s |-> <<>>, n |-> Zero]
Null == [t |-> "null", s |-> <<>>, n |-> Zero]
Str(s) == [t |-> "string", s |-> Chars(s), n |-> Zero]
Text(cs) == [t |-> "string", s |-> cs, n |-> Zero]
Number(x) == [t |-> "number", s |-> <<>>, n |-> x]

\* Parse scientific notation string to number.
parseScientific(value) ==
    IF value.t = "undefined" \/ value.t = "null"
       \/ (value.t = "string" /\ value.s = <<>>) THEN Zero
    ELSE IF value.t = "number" THEN value.n
    ELSE The({ IF isNaN(num) THEN Zero ELSE num : num \in {parseFloat(value.s)} })

----------------------------------------------------------------------------
(* Number formatting. *)

RECURSIVE IntToText(_)
IntToText(n) ==
    IF n < 10 THEN <<Digit[n + 1]>>
    ELSE IntToText(n \div 10) \o <<Digit[(n % 10) + 1]>>

Zeros(n) == [i \in 1..n |-> "0"]

\* The digits of the integer nearest to |x| * 10^f for a finite x, a tie going
\* to the larger one.  (The code rounds the double nearest to x, so a decimal
\* tie such as 1.005 may go either way there.)
ScaledDigits(x, f) ==
    LET a == IntAbs(x.m)
        k == -(x.e + f)
    IN  IF a = 0 THEN <<"0">>
        ELSE IF k <= 0 THEN IntToText(a) \o Zeros(-k)
        ELSE IF k > NumDigits(a) THEN <<"0">>
        ELSE IntToText((a + 5 * Pow10(k - 1)) \div Pow10(k))

\* Number.prototype.toString in exponent form: d.ddde+NN or d.ddde-NN
ExponentText(x) ==
    LET ds == IntToText(IntAbs(x.m))
        n == Mag(x) - 1
    IN  (IF x.m < 0 THEN <<"-">> ELSE <<>>)
        \o <<Head(ds)>>
        \o (IF Len(ds) > 1 THEN <<".">> \o Tail(ds) ELSE <<>>)
        \o (IF n < 0 THEN Chars("e-") ELSE Chars("e+")) \o IntToText(IntAbs(n))

\* Number.prototype.toString
NumberToString(x) ==
    IF isNaN(x) THEN Chars("NaN")
    ELSE IF x.k = "inf" THEN (IF x.m < 0 THEN Chars("-Infinity") ELSE Chars("Infinity"))
    ELSE IF x.m = 0 THEN <<"0">>
    ELSE LET ds == IntToText(IntAbs(x.m))
             k == Len(ds)
             n == Mag(x)
             sign == IF x.m < 0 THEN <<"-">> ELSE <<>>
         IN  IF k <= n /\ n <= 21 THEN sign \o ds \o Zeros(n - k)
             ELSE IF 0 < n /\ n <= 21
             THEN sign \o SubSeq(ds, 1, n) \o <<".">> \o SubSeq(ds, n + 1, k)
             ELSE IF -6 < n /\ n <= 0 THEN sign \o Chars("0.") \o Zeros(-n) \o ds
             ELSE ExponentText(x)

\* Number.prototype.toFixed(f)
toFixed(x, f) ==
    IF isNaN(x) THEN Chars("NaN")
    ELSE IF x.k = "inf" THEN (IF x.m < 0 THEN Chars("-Infinity") ELSE Chars("Infinity"))
    ELSE IF x.m # 0 /\ Mag(x) > 21 THEN ExponentText(x)
    ELSE The({ (IF x.m < 0 THEN <<"-">> ELSE <<>>)
               \o SubSeq(pd, 1, Len(pd) - f)
               \o (IF f > 0 THEN <<".">> \o SubSeq(pd, Len(pd) - f + 1, Len(pd))
                    ELSE <<>>) :
               pd \in { The({ IF Len(ds) < f + 1 THEN Zeros(f + 1 - Len(ds)) \o ds
                               ELSE ds : ds \in {ScaledDigits(x, f)} }) } })

\* x / 10^n
Div10(x, n) == IF isFinite(x) THEN Fin(x.m, x.e - n) ELSE x

formatValue_noAbs(value) ==
    The({ IF JsGe(v, Fin(1, 12)) THEN toFixed(Div10(v, 12), 2) \o <<"T">>
          ELSE IF JsGe(v, Fin(1, 9)) THEN toFixed(Div10(v, 9), 2) \o <<"B">>
          ELSE IF JsGe(v, Fin(1, 6)) THEN toFixed(Div10(v, 6), 2) \o <<"M">>
          ELSE IF JsGe(v, Fin(1, 3)) THEN toFixed(Div10(v, 3), 2) \o <<"K">>
          ELSE toFixed(v, 0) :
          v \in {value} })

\* Format large numbers with K, M, B, T suffixes.
formatValue(value) ==
    The({ IF JsGe(absValue, Fin(1, 12))
          THEN sign \o toFixed(Div10(absValue, 12), 2) \o <<"T">>
          ELSE IF JsGe(absValue, Fin(1, 9))
          THEN sign \o toFixed(Div10(absValue, 9), 2) \o <<"B">>
          ELSE IF JsGe(absValue, Fin(1, 6))
          THEN sign \o toFixed(Div10(absValue, 6), 2) \o <<"M">>
          ELSE IF JsGe(absValue, Fin(1, 3))
          THEN sign \o toFixed(Div10(absValue, 3), 2) \o <<"K">>
          ELSE sign \o toFixed(absValue, 0) :
          absValue \in {JsAbs(value)},
          sign \in {IF JsLt(value, Zero) THEN <<"-">> ELSE <<>>} })

\* Digits in groups of three, separated by sep.
RECURSIVE GroupThousands(_, _)
GroupThousands(ds, sep) ==
    IF Len(ds) <= 3 THEN ds
    ELSE GroupThousands(SubSeq(ds, 1, Len(ds) - 3), sep)
         \o <<sep>> \o SubSeq(ds, Len(ds) - 2, Len(ds))

\* Format price with thousand separators: toLocaleString("id-ID") with at most
\* 2 fraction digits, "." between groups and "," before the fraction.
formatPrice(value) ==
    The({ IF isNaN(x) THEN Chars("NaN")
          ELSE IF x.k = "inf"
               THEN (IF x.m < 0 THEN <<"-">> ELSE <<>>) \o <<"U+221E">>
          ELSE The({ (IF x.m < 0 THEN <<"-">> ELSE <<>>)
                     \o GroupThousands(SubSeq(pd, 1, Len(pd) - 2), ".")
                     \o The({ IF fp # <<>> THEN <<",">> \o fp ELSE <<>> :
                               fp \in {DropTrailingZeros(
                                           SubSeq(pd, Len(pd) - 1, Len(pd)))} }) :
                     pd \in { The({ IF Len(ds) < 3 THEN Zeros(3 - Len(ds)) \o ds
                                     ELSE ds : ds \in {ScaledDigits(x, 2)} }) } }) :
          x \in {value} })

formatDate_dayFirst(dateStr) ==
    IF dateStr.t # "string" \/ Len(dateStr.s) # 8 THEN dateStr
    ELSE Text(SubSeq(dateStr.s, 7, 8) \o <<"-">> \o SubSeq(dateStr.s, 5, 6)
              \o <<"-">> \o SubSeq(dateStr.s, 1, 4))

\* Format date from YYYYMMDD to readable format; dateStr is an upstream field.
formatDate(dateStr) ==
    IF dateStr.t # "string" \/ Len(dateStr.s) # 8 THEN dateStr
    ELSE Text(SubSeq(dateStr.s, 1, 4) \o <<"-">> \o SubSeq(dateStr.s, 5, 6)
              \o <<"-">> \o SubSeq(dateStr.s, 7, 8))

----------------------------------------------------------------------------
(* Broker activity serializer. *)

\* Dash with the other zero convention: "0" in place of the dash.
Dash_zero == <<"0">>

\* The placeholder of a formatted field of the side a record is not on.
Dash == <<"-">>

\* Serialize a buy transaction.
serializeBuyTransaction(raw) ==
    The({
        [ stockCode |-> raw.netbs_stock_code,
          brokerCode |-> raw.netbs_broker_code,
          date |-> formatDate(raw.netbs_date),
          type |-> raw.type,
          buyLot |-> buyLot,
          buyValue |-> buyValue,
          buyAvgPrice |-> buyAvgPrice,
          sellLot |-> Zero,
          sellValue |-> Zero,
          sellAvgPrice |-> Zero,
          netLot |-> buyLot,
          netValue |-> buyValue,
          buyValueFormatted |-> formatValue(buyValue),
          sellValueFormatted |-> Dash,
          netValueFormatted |-> formatValue(buyValue),
          buyAvgPriceFormatted |-> formatPrice(buyAvgPrice),
          sellAvgPriceFormatted |-> Dash ] :
        buyLot \in {parseScientific(raw.blot)},
        buyValue \in {parseScientific(raw.bval)},
        buyAvgPrice \in {parseScientific(raw.netbs_buy_avg_price)} })

\* SellMagnitude without Math.abs: the upstream sign is kept.
SellMagnitude_signed(value) == parseScientific(value)

\* Math.abs(parseScientific(value)): upstream encodes sells as negative numbers.
SellMagnitude(value) == JsAbs(parseScientific(value))

\* Serialize a sell transaction.
serializeSellTransaction(raw) ==
    The({
        [ stockCode |-> raw.netbs_stock_code,
          brokerCode |-> raw.netbs_broker_code,
          date |-> formatDate(raw.netbs_date),
          type |-> raw.type,
          buyLot |-> Zero,
          buyValue |-> Zero,
          buyAvgPrice |-> Zero,
          sellLot |-> sellLot,
          sellValue |-> sellValue,
          sellAvgPrice |-> sellAvgPrice,
          netLot |-> JsNeg(sellLot),
          netValue |-> JsNeg(sellValue),
          buyValueFormatted |-> Dash,
          sellValueFormatted |-> formatValue(sellValue),
          netValueFormatted |-> formatValue(JsNeg(sellValue)),
          buyAvgPriceFormatted |-> Dash,
          sellAvgPriceFormatted |-> formatPrice(sellAvgPrice) ] :
        sellLot \in {SellMagnitude(raw.slot)},
        sellValue \in {SellMagnitude(raw.sval)},
        sellAvgPrice \in {parseScientific(raw.netbs_sell_avg_price)} })

\* Serialize AccDist info; raw is a stat bucket that is present.
serializeAccDistInfo(raw) ==
    [ accDist |-> raw.accdist,
      amount |-> raw.amount,
      percent |-> raw.percent,
      volume |-> raw.vol ]

\* The six stat buckets of the bandar detector.
Buckets == {"avg", "avg5", "top1", "top3", "top5", "top10"}

\* Serialize bandar detector; raw is a detector block that is present and
\* whose buckets are all present.
serializeBandarDetector(raw) ==
    [ averagePrice |-> raw.average,
      totalValue |-> raw.value,
      totalVolume |-> raw.volume,
      totalBuyers |-> raw.total_buyer,
      totalSellers |-> raw.total_seller,
      brokerAccDist |-> raw.broker_accdist,
      average |-> serializeAccDistInfo(raw.avg[1]),
      average5Day |-> serializeAccDistInfo(raw.avg5[1]),
      top1 |-> serializeAccDistInfo(raw.top1[1]),
      top3 |-> serializeAccDistInfo(raw.top3[1]),
      top5 |-> serializeAccDistInfo(raw.top5[1]),
      top10 |-> serializeAccDistInfo(raw.top10[1]) ]

\* Reading a property of undefined throws a TypeError: serializeBandarDetector
\* reads raw.average of an absent block, serializeAccDistInfo raw.accdist of
\* an absent bucket.
BandarDetectorThrows(detector) ==
    detector = None \/ \E b \in Buckets : detector[1][b] = None

\* array || []
OrEmpty(array) == IF array = None THEN <<>> ELSE array[1]

\* Array.prototype.map
Map(F(_), array) == [i \in 1..Len(array) |-> F(array[i])]

\* Array.prototype.reduce((sum, t) => sum + t, 0) over the numbers of array.
RECURSIVE SumUpTo(_, _)
SumUpTo(array, n) ==
    IF n = 0 THEN Zero ELSE JsAdd(SumUpTo(array, n - 1), array[n])

Sum(array) == SumUpTo(array, Len(array))

BuyValueOf(t) == t.buyValue
BuyLotOf(t) == t.buyLot
\* SellValueOf reading the signed net of the record.
SellValueOf_net(t) == t.netValue

SellValueOf(t) == t.sellValue
SellLotOf(t) == t.sellLot

\* Net with the sell total added instead of subtracted.
Net_sum(totalBuy, totalSell) == JsAdd(totalBuy, totalSell)

\* The net of a buy total and a sell total.
Net(totalBuy, totalSell) == JsSub(totalBuy, totalSell)

\* Main serializer for broker activity.
serializeBrokerActivity(raw) ==
    IF raw.data.broker_summary = None
       \/ BandarDetectorThrows(raw.data.bandar_detector)
    THEN Threw
    ELSE The({ The({ The({
        Returned(
        [ brokerCode |-> data.broker_code,
          brokerName |-> data.broker_name,
          dateFrom |-> data.from,
          dateTo |-> data.to,
          bandarDetector |-> serializeBandarDetector(data.bandar_detector[1]),
          buyTransactions |-> buyTransactions,
          totalBuyValue |-> totalBuyValue,
          totalBuyLot |-> totalBuyLot,
          sellTransactions |-> sellTransactions,
          totalSellValue |-> totalSellValue,
          totalSellLot |-> totalSellLot,
          netValue |-> netValue,
          netLot |-> netLot,
          totalBuyValueFormatted |-> formatValue(totalBuyValue),
          totalSellValueFormatted |-> formatValue(totalSellValue),
          netValueFormatted |-> formatValue(netValue) ]) :
        netValue \in {Net(totalBuyValue, totalSellValue)},
        netLot \in {Net(totalBuyLot, totalSellLot)} }) :
        totalBuyValue \in {Sum(Map(BuyValueOf, buyTransactions))},
        totalBuyLot \in {Sum(Map(BuyLotOf, buyTransactions))},
        totalSellValue \in {Sum(Map(SellValueOf, sellTransactions))},
        totalSellLot \in {Sum(Map(SellLotOf, sellTransactions))} }) :
        data \in {raw.data},
        buyTransactions \in
            {Map(serializeBuyTransaction,
                 OrEmpty(raw.data.broker_summary[1].brokers_buy))},
        sellTransactions \in
            {Map(serializeSellTransaction,
                 OrEmpty(raw.data.broker_summary[1].brokers_sell))} })

\* One buy entry of the summary.
SummaryBuy(b) ==
    [ stockCode |-> b.netbs_stock_code,
      type |-> b.type,
      side |-> "buy",
      lot |-> parseScientific(b.blot),
      value |-> parseScientific(b.bval),
      avgPrice |-> parseScientific(b.netbs_buy_avg_price),
      valueFormatted |-> formatValue(parseScientific(b.bval)),
      avgPriceFormatted |-> formatPrice(parseScientific(b.netbs_buy_avg_price)) ]

\* SummarySell without Math.abs: the upstream sign is kept.
SummarySell_signed(x) ==
    [ stockCode |-> x.netbs_stock_code,
      type |-> x.type,
      side |-> "sell",
      lot |-> parseScientific(x.slot),
      value |-> parseScientific(x.sval),
      avgPrice |-> parseScientific(x.netbs_sell_avg_price),
      valueFormatted |-> formatValue(parseScientific(x.sval)),
      avgPriceFormatted |-> formatPrice(parseScientific(x.netbs_sell_avg_price)) ]

\* One sell entry of the summary.
SummarySell(x) ==
    [ stockCode |-> x.netbs_stock_code,
      type |-> x.type,
      side |-> "sell",
      lot |-> JsAbs(parseScientific(x.slot)),
      value |-> JsAbs(parseScientific(x.sval)),
      avgPrice |-> parseScientific(x.netbs_sell_avg_price),
      valueFormatted |-> formatValue(JsAbs(parseScientific(x.sval))),
      avgPriceFormatted |-> formatPrice(parseScientific(x.netbs_sell_avg_price)) ]

ValueOf(t) == t.value

\* Simplified summary for quick view.
serializeBrokerActivitySummary(raw) ==
    IF raw.data.broker_summary = None THEN Threw
    ELSE The({ The({
        Returned(
        [ brokerCode |-> data.broker_code,
          brokerName |-> data.broker_name,
          date |-> data.from,
          buys |-> buys,
          sells |-> sells,
          totalBuyValue |-> formatValue(totalBuy),
          totalSellValue |-> formatValue(totalSell),
          netValue |-> formatValue(JsSub(totalBuy, totalSell)) ]) :
        totalBuy \in {Sum(Map(ValueOf, buys))},
        totalSell \in {Sum(Map(ValueOf, sells))} }) :
        data \in {raw.data},
        buys \in {Map(SummaryBuy, OrEmpty(raw.data.broker_summary[1].brokers_buy))},
        sells \in {Map(SummarySell, OrEmpty(raw.data.broker_summary[1].brokers_sell))} })

----------------------------------------------------------------------------
(* Watchlist serializer. *)

\* Format large numbers with K, M, B suffixes.
formatVolume(volume) ==
    The({ IF JsGe(v, Fin(1, 12)) THEN toFixed(Div10(v, 12), 2) \o <<"T">>
          ELSE IF JsGe(v, Fin(1, 9)) THEN toFixed(Div10(v, 9), 2) \o <<"B">>
          ELSE IF JsGe(v, Fin(1, 6)) THEN toFixed(Div10(v, 6), 2) \o <<"M">>
          ELSE IF JsGe(v, Fin(1, 3)) THEN toFixed(Div10(v, 3), 2) \o <<"K">>
          ELSE NumberToString(v) :
          v \in {volume} })

\* The truthiness of an upstream scalar field.
Truthy(value) ==
    \/ value.t = "string" /\ value.s # <<>>
    \/ value.t = "number" /\ ~isNaN(value.n) /\ value.n # Zero

NotPlusOrComma(c) == c \notin {"+", ","}

\* value.replace is not a function when value is a number that is not falsy.
parseNumberThrows(value) == Truthy(value) /\ value.t # "string"

\* Parse a numeric string, returning 0 if invalid.
parseNumber(value) ==
    IF ~Truthy(value) THEN Zero
    ELSE The({ IF isNaN(num) THEN Zero ELSE num :
               num \in {parseFloat(SelectSeq(value.s, NotPlusOrComma))} })

\* Math.max and Math.min over a non-empty array of numbers, none of them NaN.
RECURSIVE MaxUpTo(_, _)
MaxUpTo(array, n) ==
    IF n = 1 THEN array[1]
    ELSE The({ IF JsLt(r, array[n]) THEN array[n] ELSE r :
               r \in {MaxUpTo(array, n - 1)} })

RECURSIVE MinUpTo(_, _)
MinUpTo(array, n) ==
    IF n = 1 THEN array[1]
    ELSE The({ IF JsLt(array[n], r) THEN array[n] ELSE r :
               r \in {MinUpTo(array, n - 1)} })

MathMax(array) == MaxUpTo(array, Len(array))
MathMin_last(array) == array[Len(array)]
MathMin(array) == MinUpTo(array, Len(array))

\* An upstream boolean field: absent, null or a boolean.
FlagUndefined == [t |-> "undefined", b |-> FALSE]
FlagNull == [t |-> "null", b |-> FALSE]
Flag(b) == [t |-> "boolean", b |-> b]

\* flag || dflt
Coalesce_or(flag, dflt) == (flag.t = "boolean" /\ flag.b) \/ dflt

\* flag ?? dflt
Coalesce(flag, dflt) == IF flag.t = "boolean" THEN flag.b ELSE dflt

\* raw.orderbook?.bid ? parseNumber(raw.orderbook.bid) : null
Quote(orderbook, side) ==
    IF orderbook # None /\ Truthy(orderbook[1][side])
    THEN Some(parseNumber(orderbook[1][side])) ELSE None

\* change > 0 and change < 0
IsPositive(change) == JsGt(change, Zero)
IsNegative_le(change) == JsLe(change, Zero)
IsNegative(change) == JsLt(change, Zero)

serializeStockThrows(raw) ==
    \/ \E f \in {"last", "previous", "change", "percent", "volume"} :
          parseNumberThrows(raw[f])
    \/ \E i \in 1..Len(OrEmpty(raw.prices)) : parseNumberThrows(OrEmpty(raw.prices)[i])
    \/ raw.orderbook # None
       /\ \E side \in {"bid", "offer"} : parseNumberThrows(raw.orderbook[1][side])

\* Serialize a single stock item (raw is an item none of whose fields throws).
serializeStock(raw) ==
    The({
        [ symbol |-> raw.symbol,
          name |-> raw.name,
          exchange |-> raw.exchange,
          iconUrl |-> raw.icon_url,
          lastPrice |-> lastPrice,
          previousClose |-> previousClose,
          openPrice |->
              IF Len(intradayPrices) > 0 THEN intradayPrices[1] ELSE lastPrice,
          highPrice |->
              IF Len(intradayPrices) > 0 THEN MathMax(intradayPrices) ELSE lastPrice,
          lowPrice |->
              IF Len(intradayPrices) > 0 THEN MathMin(intradayPrices) ELSE lastPrice,
          change |-> change,
          changePercent |-> changePercent,
          isPositive |-> IsPositive(change),
          isNegative |-> IsNegative(change),
          volume |-> volume,
          volumeFormatted |-> formatVolume(volume),
          intradayPrices |-> intradayPrices,
          bid |-> Quote(raw.orderbook, "bid"),
          offer |-> Quote(raw.orderbook, "offer"),
          hasCorporateAction |->
              Coalesce(IF raw.corp_action = None THEN FlagUndefined
                       ELSE raw.corp_action[1].active, FALSE),
          isUma |-> Coalesce(raw.uma, FALSE),
          tradeable |-> Coalesce(raw.tradeable, TRUE) ] :
        lastPrice \in {parseNumber(raw.last)},
        previousClose \in {parseNumber(raw.previous)},
        change \in {parseNumber(raw.change)},
        changePercent \in {parseNumber(raw.percent)},
        volume \in {parseNumber(raw.volume)},
        intradayPrices \in {Map(parseNumber, OrEmpty(raw.prices))} })

Reverse(array) == [i \in 1..Len(array) |-> array[Len(array) + 1 - i]]
Stocks_reversed(result) == Map(serializeStock, Reverse(result))

\* result.map(serializeStock)
Stocks(result) == Map(serializeStock, result)

serializeWatchlist(raw) ==
    The({
        IF \E i \in 1..Len(result) : serializeStockThrows(result[i]) THEN Threw
        ELSE Returned(
            [ id |-> data.watchlist_id,
              name |-> data.name,
              description |-> data.descriptions,
              totalStocks |-> data.total,
              isDefault |-> data.is_default,
              sortBy |-> data.sort_by,
              sortDirection |-> data.sort_dir,
              stocks |-> Stocks(result) ]) :
        data \in {raw.data},
        result \in {OrEmpty(raw.data.result)} })

----------------------------------------------------------------------------
(* Financial-table display (the stream page). *)

\* Number.prototype.toLocaleString("id-ID") with the default options: at most
\* 3 fraction digits, "." between groups and "," before the fraction.
toLocaleString(value) ==
    The({ IF isNaN(x) THEN Chars("NaN")
          ELSE IF x.k = "inf"
               THEN (IF x.m < 0 THEN <<"-">> ELSE <<>>) \o <<"U+221E">>
          ELSE The({ (IF x.m < 0 THEN <<"-">> ELSE <<>>)
                     \o GroupThousands(SubSeq(pd, 1, Len(pd) - 3), ".")
                     \o The({ IF fp # <<>> THEN <<",">> \o fp ELSE <<>> :
                               fp \in {DropTrailingZeros(
                                           SubSeq(pd, Len(pd) - 2, Len(pd)))} }) :
                     pd \in { The({ IF Len(ds) < 4 THEN Zeros(4 - Len(ds)) \o ds
                                     ELSE ds : ds \in {ScaledDigits(x, 3)} }) } }) :
          x \in {value} })

\* cleaned.match(/^-?\d+\.?\d*$/)
PureNumeric(cleaned) ==
    LET sgn == IF Len(cleaned) >= 1 /\ cleaned[1] = "-" THEN 1 ELSE 0
        nInt == DigitRun(cleaned, sgn + 1)
        p == sgn + 1 + nInt
        dot == IF p <= Len(cleaned) /\ cleaned[p] = "." THEN 1 ELSE 0
        nFrac == DigitRun(cleaned, p + dot)
    IN  nInt >= 1 /\ p + dot + nFrac = Len(cleaned) + 1

NotCommaOrSpace(c) == c # "," /\ c \notin WhiteSpace

\* formatValue of the financials page: value is the text of a table cell.
page_formatValue(value) ==
    IF value = <<>> \/ value = <<"-">> THEN <<"-">>
    ELSE The({
        IF ~isNaN(num) /\ PureNumeric(cleaned)
        THEN IF JsGe(JsAbs(num), Fin(1, 12))
             THEN toFixed(Div10(num, 12), 2) \o <<"T">>
             ELSE IF JsGe(JsAbs(num), Fin(1, 9))
             THEN toFixed(Div10(num, 9), 2) \o <<"B">>
             ELSE IF JsGe(JsAbs(num), Fin(1, 6))
             THEN toFixed(Div10(num, 6), 2) \o <<"M">>
             ELSE toLocaleString(num)
        ELSE value :
        cleaned \in {SelectSeq(value, NotCommaOrSpace)},
        num \in {parseFloat(SelectSeq(value, NotCommaOrSpace))} })

\* {cellIdx === 0 ? cell : formatValue(cell)}
renderCell(cell, cellIdx) ==
    IF cellIdx = 0 THEN cell ELSE page_formatValue(cell)

----------------------------------------------------------------------------
(* The HTML locator.  A document is a string, a number, null, an array of    *)
(* documents or an object; an object lists its properties in the order they  *)
(* were inserted.                                                             *)

DocString(s) == [t |-> "string", s |-> Chars(s)]
DocNumber == [t |-> "number"]
DocNull == [t |-> "null"]
DocArray(items) == [t |-> "array", items |-> items]
DocObject(entries) == [t |-> "object", entries |-> entries]
Entry(key, value) == [key |-> key, value |-> value]

\* obj.includes(pattern)
Includes(cs, pattern) ==
    \E i \in 1..(Len(cs) - Len(pattern) + 1) :
        SubSeq(cs, i, i + Len(pattern) - 1) = pattern

IsHtml_tableOnly(cs) == Includes(cs, Chars("<table"))

\* obj.includes("<table") || obj.includes("<tr") || obj.includes("<td")
IsHtml(cs) ==
    \/ Includes(cs, Chars("<table"))
    \/ Includes(cs, Chars("<tr"))
    \/ Includes(cs, Chars("<td"))

\* A property key that is an array index: the canonical numeral of an integer.
IsIndexKey(key) ==
    LET cs == Chars(key)
    IN  /\ cs # <<>>
        /\ \A i \in 1..Len(cs) : IsDigit(cs[i])
        /\ Len(cs) > 1 => cs[1] # "0"

IndexOf(key) == DigitsValue(Chars(key), 1, Len(key))

\* Object.values: the values of the index keys in ascending order, then those
\* of the other keys in insertion order; the elements of an array by index.
ObjectValues(obj) ==
    IF obj.t = "array" THEN obj.items
    ELSE LET indexed == SelectSeq(obj.entries, LAMBDA e : IsIndexKey(e.key))
             named == SelectSeq(obj.entries, LAMBDA e : ~IsIndexKey(e.key))
             ordered == SortSeq(indexed,
                                LAMBDA a, b : IndexOf(a.key) < IndexOf(b.key))
                        \o named
         IN  [i \in 1..Len(ordered) |-> ordered[i].value]

\* Try to find HTML content in the response recursively: null (None) or the
\* string found.
RECURSIVE findHtmlContent(_)
RECURSIVE FirstFound(_, _)
findHtmlContent(obj) ==
    IF obj.t = "string" /\ IsHtml(obj.s) THEN Some(obj.s)
    ELSE IF obj.t \in {"array", "object"} THEN FirstFound(ObjectValues(obj), 1)
    ELSE None

\* The loop over Object.values(obj) from the i-th value on.
FirstFound(values, i) ==
    IF i > Len(values) THEN None
    ELSE The({ IF found # None /\ found[1] # <<>> THEN found
               ELSE FirstFound(values, i + 1) :
               found \in {findHtmlContent(values[i])} })

----------------------------------------------------------------------------
(* The table parser.  An HTML text is the sequence of its <table> elements   *)
(* as written: a table is a sequence of sections, a section the rows written *)
(* inside <thead>, <tbody> or <tfoot>, or directly inside <table> (tag       *)
(* "none"), a row a sequence of <td> and <th> cells with their text.         *)

TableCell(tag, text) == [tag |-> tag, text |-> Chars(text)]
Section(tag, rows) == [tag |-> tag, rows |-> rows]

\* DOMParser.parseFromString(html, "text/html"): the tree builder puts a <tr>
\* written directly inside <table> into a <tbody> of its own making.
parseFromString(html) ==
    [ t \in 1..Len(html) |->
        [ k \in 1..Len(html[t]) |->
            IF html[t][k].tag = "none" THEN Section("tbody", html[t][k].rows)
            ELSE html[t][k] ] ]

\* table.querySelectorAll("<tags> tr"): the rows of the sections with one of
\* the tags, in document order, from the k-th section on.
RECURSIVE RowsFrom(_, _, _)
RowsFrom(table, tags, k) ==
    IF k > Len(table) THEN <<>>
    ELSE (IF table[k].tag \in tags THEN table[k].rows ELSE <<>>)
         \o RowsFrom(table, tags, k + 1)

QueryRows(table, tags) == RowsFrom(table, tags, 1)

\* text.trim()
RECURSIVE Trim(_)
Trim(cs) ==
    IF cs # <<>> /\ cs[1] \in WhiteSpace THEN Trim(Tail(cs))
    ELSE IF cs # <<>> /\ cs[Len(cs)] \in WhiteSpace
         THEN Trim(SubSeq(cs, 1, Len(cs) - 1))
    ELSE cs

\* row.querySelectorAll("td, th").forEach: cell.textContent?.trim() || ""
RowCells(row) == [i \in 1..Len(row) |-> Trim(row[i].text)]

HasCells(cells) == Len(cells) > 0

\* rows.push(cells) for every row with cells.length > 0
PushRows(domRows) == SelectSeq(Map(RowCells, domRows), HasCells)

Yields_always(headers, rows) == TRUE

\* headers.length > 0 || rows.length > 0
Yields(headers, rows) == Len(headers) > 0 \/ Len(rows) > 0

\* The body of tableElements.forEach: the tables pushed for one <table>.
parseTable(table) ==
    The({ The({ The({
        IF Yields(headers, rows) THEN <<[headers |-> headers, rows |-> rows]>>
        ELSE <<>> :
        rows \in { IF Len(bodyRows) > 0 THEN PushRows(bodyRows)
                   ELSE IF Len(headers) > 0 THEN PushRows(Tail(allRows))
                   ELSE PushRows(allRows) } }) :
        headers \in { IF theadRows # <<>> THEN RowCells(theadRows[1])
                      ELSE IF allRows # <<>> THEN RowCells(allRows[1])
                      ELSE <<>> } }) :
        theadRows \in {QueryRows(table, {"thead"})},
        allRows \in {QueryRows(table, {"thead", "tbody", "tfoot"})},
        bodyRows \in {QueryRows(table, {"tbody"})} })

RECURSIVE TablesFrom(_, _)
TablesFrom(tableElements, t) ==
    IF t > Len(tableElements) THEN <<>>
    ELSE parseTable(tableElements[t]) \o TablesFrom(tableElements, t + 1)

\* Parse HTML table string into structured data.
parseHtmlTable(html) == TablesFrom(parseFromString(html), 1)

----------------------------------------------------------------------------
(* parseScientific on its own.  Init draws the argument; the action calls. *)

Alphabet == {"0", "1", "5", ".", "E", "+", "-", "x", " "}

\* Every text of at most n characters over Alphabet.
Texts(n) == UNION {[1..k -> Alphabet] : k \in 0..n}

NumeralFixtures ==
    { Str("1.5E+09"), Str("-1.5E+03"), Str("1.23E+09"), Str("2.5e-3"),
      Str("1234000000000"), Str("Infinity"), Str("-Infinity"), Str("1e999"),
      Str("NaN"), Str("abc"), Str("12abc"), Str("1,234.56") }

NumberFixtures ==
    { Number(Zero), Number(Fin(15, 8)), Number(Fin(-25, -1)), Number(PosInf) }

Tokens ==
    {Undefined, Null} \cup {Text(cs) : cs \in Texts(MaxTokLen)}
    \cup NumeralFixtures \cup NumberFixtures

InitParse ==
    /\ token \in Tokens
    /\ parsed = Idle
    /\ rawBuy = None /\ rawSell = None /\ buyTx = Idle /\ sellTx = Idle
    /\ rawBroker = None /\ activity = Idle /\ summary = Idle
    /\ rawItem = None /\ stock = Idle
    /\ rawWatch = None /\ watchlist = Idle
    /\ call = None /\ outcome = Idle
    /\ api = None /\ session = None /\ ui = None

ParseScientific ==
    /\ parsed = Idle
    /\ parsed' = Returned(parseScientific(token))
    /\ UNCHANGED <<token, rawBuy, rawSell, buyTx, sellTx, rawBroker, activity,
                   summary, rawItem, stock, rawWatch, watchlist, call, outcome,
                   api, session, ui>>

NextParse == ParseScientific

SpecParse == InitParse /\ [][NextParse]_vars

----------------------------------------------------------------------------
(* The two transaction serializers on one record each. *)

LotTokens ==
    { Undefined, Null, Str(""), Str("abc"), Str("0"),
      Str("1.5E+03"), Str("-1.5E+03"), Str("1.5E+09"), Str("-3E+06"),
      Str("2.5E-01"), Str("Infinity"), Str("-Infinity"),
      Number(Fin(25, 1)), Number(Fin(-4, 2)) }

PriceTokens == { Undefined, Str("9.25E+03"), Str("-1E+02"), Str("1234.567") }

DateTokens == { Undefined, Str(""), Str("bad"), Str("20240315") }

InvestorTypes == {"Lokal", "Asing"}

RawBuy(lot, val, avg, date, type, code) ==
    [ blot |-> lot, bval |-> val, netbs_buy_avg_price |-> avg,
      netbs_broker_code |-> "YP", netbs_date |-> date,
      netbs_stock_code |-> code, type |-> type ]

RawSell(lot, val, avg, date, type, code) ==
    [ slot |-> lot, sval |-> val, netbs_sell_avg_price |-> avg,
      netbs_broker_code |-> "YP", netbs_date |-> date,
      netbs_stock_code |-> code, type |-> type ]

\* The two records are drawn with the same field values.
InitTx ==
    /\ \E lot \in LotTokens, val \in LotTokens, avg \in PriceTokens,
          date \in DateTokens, type \in InvestorTypes :
          /\ rawBuy = Some(RawBuy(lot, val, avg, date, type, "BBCA"))
          /\ rawSell = Some(RawSell(lot, val, avg, date, type, "BBCA"))
    /\ buyTx = Idle /\ sellTx = Idle
    /\ token = Undefined /\ parsed = Idle
    /\ rawBroker = None /\ activity = Idle /\ summary = Idle
    /\ rawItem = None /\ stock = Idle
    /\ rawWatch = None /\ watchlist = Idle
    /\ call = None /\ outcome = Idle
    /\ api = None /\ session = None /\ ui = None

SerializeBuyTransaction ==
    /\ buyTx = Idle
    /\ buyTx' = Returned(serializeBuyTransaction(rawBuy[1]))
    /\ UNCHANGED <<token, parsed, rawBuy, rawSell, sellTx, rawBroker, activity,
                   summary, rawItem, stock, rawWatch, watchlist, call, outcome,
                   api, session, ui>>

SerializeSellTransaction ==
    /\ sellTx = Idle
    /\ sellTx' = Returned(serializeSellTransaction(rawSell[1]))
    /\ UNCHANGED <<token, parsed, rawBuy, rawSell, buyTx, rawBroker, activity,
                   summary, rawItem, stock, rawWatch, watchlist, call, outcome,
                   api, session, ui>>

NextTx == SerializeBuyTransaction \/ SerializeSellTransaction

SpecTx == InitTx /\ [][NextTx]_vars

----------------------------------------------------------------------------
(* The broker activity serializer and its summary on one response. *)

\* Every sequence of at most n elements of S.
SeqsUpTo(S, n) == UNION {[1..k -> S] : k \in 0..n}

BuyFixtures ==
    { RawBuy(Str("1.5E+03"), Str("1.5E+09"), Str("9.25E+03"), Str("20240315"), "Lokal", "BBCA"),
      RawBuy(Str("2.5E+01"), Str("2.5E+05"), Str("1E+04"), Str("20240318"), "Asing", "TLKM"),
      RawBuy(Number(Fin(3, 2)), Str("abc"), Undefined, Str("bad"), "Lokal", "ASII"),
      RawBuy(Str("Infinity"), Str("Infinity"), Str("1234.567"), Str("20240315"), "Asing", "GOTO"),
      RawBuy(Str("-4E+02"), Str("-Infinity"), Null, Undefined, "Lokal", "BMRI") }

SellFixtures ==
    { RawSell(Str("-1.5E+03"), Str("-3E+06"), Str("2E+03"), Str("20240315"), "Lokal", "BBCA"),
      RawSell(Str("2E+02"), Str("4.5E+05"), Str("2.25E+03"), Str("20240318"), "Asing", "TLKM"),
      RawSell(Undefined, Str(""), Null, Str("bad"), "Lokal", "ASII"),
      RawSell(Str("-Infinity"), Str("Infinity"), Str("-1E+02"), Undefined, "Asing", "GOTO"),
      RawSell(Number(Fin(-25, 1)), Str("-1.5E+09"), Str("6E+06"), Str("20240315"), "Lokal", "BMRI") }

Bucket(label) ==
    Some([ accdist |-> label, amount |-> Fin(125, 7), percent |-> Fin(425, -1),
           vol |-> Fin(3, 5) ])

Detector(avg5) ==
    [ average |-> Fin(925, 1), avg |-> Bucket("Acc"), avg5 |-> avg5,
      broker_accdist |-> "Acc", number_broker_buysell |-> Fin(42, 0),
      top1 |-> Bucket("Big Acc"), top3 |-> Bucket("Acc"),
      top5 |-> Bucket("Neutral"), top10 |-> Bucket("Dist"),
      total_buyer |-> Fin(2, 1), total_seller |-> Fin(22, 0),
      value |-> Fin(15, 8), volume |-> Fin(3, 5) ]

BrokerSummary(buys, sells) ==
    [ brokers_buy |-> buys, brokers_sell |-> sells, symbol |-> "BBCA" ]

BrokerResponse(detector, brokerSummary) ==
    [ message |-> "ok",
      data |-> [ bandar_detector |-> detector,
                 broker_summary |-> brokerSummary,
                 from |-> "2024-03-15", to |-> "2024-03-18",
                 broker_code |-> "YP", broker_name |-> "Mirae" ] ]

\* An absent sequence, or a sequence of at most MaxTx records.
BuyLists == {None} \cup {Some(l) : l \in SeqsUpTo(BuyFixtures, MaxTx)}
SellLists == {None} \cup {Some(l) : l \in SeqsUpTo(SellFixtures, MaxTx)}

\* Every mix of buy and sell sequences under a complete detector block; an
\* absent detector block, bucket or broker_summary with a few of them.
BrokerResponses ==
    { BrokerResponse(Some(Detector(Bucket("Acc"))), Some(BrokerSummary(b, s))) :
        b \in BuyLists, s \in SellLists }
    \cup { BrokerResponse(d, Some(BrokerSummary(b, None))) :
            d \in {None, Some(Detector(None))},
            b \in {None} \cup {Some(<<x>>) : x \in BuyFixtures} }
    \cup { BrokerResponse(d, None) : d \in {None, Some(Detector(Bucket("Acc")))} }

InitBroker ==
    /\ rawBroker \in {Some(r) : r \in BrokerResponses}
    /\ activity = Idle /\ summary = Idle
    /\ token = Undefined /\ parsed = Idle
    /\ rawBuy = None /\ rawSell = None /\ buyTx = Idle /\ sellTx = Idle
    /\ rawItem = None /\ stock = Idle
    /\ rawWatch = None /\ watchlist = Idle
    /\ call = None /\ outcome = Idle
    /\ api = None /\ session = None /\ ui = None

SerializeBrokerActivity ==
    /\ activity = Idle
    /\ activity' = serializeBrokerActivity(rawBroker[1])
    /\ UNCHANGED <<token, parsed, rawBuy, rawSell, buyTx, sellTx, rawBroker,
                   summary, rawItem, stock, rawWatch, watchlist, call, outcome,
                   api, session, ui>>

SerializeBrokerActivitySummary ==
    /\ summary = Idle
    /\ summary' = serializeBrokerActivitySummary(rawBroker[1])
    /\ UNCHANGED <<token, parsed, rawBuy, rawSell, buyTx, sellTx, rawBroker,
                   activity, rawItem, stock, rawWatch, watchlist, call, outcome,
                   api, session, ui>>

NextBroker == SerializeBrokerActivity \/ SerializeBrokerActivitySummary

SpecBroker == InitBroker /\ [][NextBroker]_vars

----------------------------------------------------------------------------
(* The watchlist serializers.  Init draws either a raw stock item or a raw    *)
(* watchlist response; each action is one call.                               *)

StockItem(symbol, change) ==
    [ symbol |-> symbol,
      name |-> "Emiten",
      exchange |-> "IDX",
      icon_url |-> "icon.png",
      last |-> Str("9,250"),
      previous |-> Str("9,200"),
      change |-> change,
      percent |-> Str("+0.54"),
      volume |-> Str("1234567"),
      prices |-> None,
      orderbook |-> None,
      corp_action |-> None,
      uma |-> FlagUndefined,
      tradeable |-> FlagUndefined ]

BaseItem == StockItem("BBCA", Str("+50"))

PriceSamples == {Str("100"), Str("105"), Str("98"), Str("102"), Str("x")}
LastTokens == {Str("9,250"), Str("101"), Str("")}

\* Items that differ in their intraday samples and last price.
PriceItems ==
    { [BaseItem EXCEPT !.prices = p, !.last = l] :
        p \in {None} \cup {Some(q) : q \in SeqsUpTo(PriceSamples, MaxPrices)},
        l \in LastTokens }

GainingChanges == {Str("+50"), Str("+1,250.5"), Str("0.25")}
LosingChanges == {Str("-25"), Str("-0.5"), Str("-1,000")}
OtherChanges ==
    {Str("0"), Str("+0"), Str("-0.00"), Str(""), Str("x"), Str("-"), Str("+"),
     Undefined, Null}

\* Items that differ in their change and volume.
ChangeItems ==
    { [BaseItem EXCEPT !.change = c, !.volume = v] :
        c \in GainingChanges \cup LosingChanges \cup OtherChanges,
        v \in {Str("1234567"), Str("950"), Str("2,500,000,000"), Str("")} }

Flags == {FlagUndefined, FlagNull, Flag(TRUE), Flag(FALSE)}

\* Items that differ in their boolean flags.
FlagItems ==
    { [BaseItem EXCEPT !.corp_action = c, !.uma = u, !.tradeable = t] :
        c \in {None} \cup {Some([active |-> f, icon |-> "", text |-> ""]) : f \in Flags},
        u \in Flags,
        t \in Flags }

QuoteTokens == {Str("9225"), Str("0"), Str(""), Undefined}

\* Items that differ in their order book.
OrderbookItems ==
    { [BaseItem EXCEPT !.orderbook = o] :
        o \in {None} \cup {Some([bid |-> b, offer |-> f]) :
                            b \in QuoteTokens, f \in QuoteTokens} }

\* The shapes a scalar field can take besides a numeral in a string.
ShapeTokens ==
    {Undefined, Null, Str(""), Str("abc"), Number(Zero), Number(Fin(925, 1))}

ScalarFields == {"last", "previous", "change", "percent", "volume"}

\* Items with one scalar field, one intraday sample or one side of the order
\* book in each of these shapes.
ShapeItems ==
    { [BaseItem EXCEPT ![f] = v] : f \in ScalarFields, v \in ShapeTokens }
    \cup { [BaseItem EXCEPT !.prices = Some(<<Str("100"), v>>)] : v \in ShapeTokens }
    \cup { [BaseItem EXCEPT !.orderbook = Some(o)] :
            o \in { [bid |-> v, offer |-> Str("9225")] : v \in ShapeTokens }
                  \cup { [bid |-> Str("9225"), offer |-> v] : v \in ShapeTokens } }

\* Items that differ in the sign and size of their volume.
VolumeItems ==
    { [BaseItem EXCEPT !.volume = v] :
        v \in {Str("2500"), Str("-2500"), Str("-999"), Str("-1,234,567"),
               Str("-3000000000"), Str("7,000,000,000,000")} }

StockItems ==
    PriceItems \cup ChangeItems \cup FlagItems \cup OrderbookItems \cup ShapeItems
        \cup VolumeItems

StockFixtures ==
    { StockItem("BBCA", Str("+50")),
      [StockItem("TLKM", Str("+1,250.5")) EXCEPT
          !.prices = Some(<<Str("100"), Str("105"), Str("98"), Str("102")>>)],
      [StockItem("ASII", Str("-25")) EXCEPT !.tradeable = Flag(FALSE)],
      [StockItem("GOTO", Str("-0.5")) EXCEPT !.prices = Some(<<>>)],
      StockItem("BMRI", Str("0")) }

WatchlistResponse(result) ==
    [ message |-> "ok",
      data |-> [ watchlist_id |-> 7,
                 descriptions |-> "",
                 result |-> result,
                 total |-> 2,
                 name |-> "Utama",
                 is_default |-> TRUE,
                 sort_by |-> "symbol",
                 sort_dir |-> "asc" ] ]

WatchlistResponses ==
    { WatchlistResponse(r) :
        r \in {None} \cup {Some(q) : q \in SeqsUpTo(StockFixtures, MaxStocks)} }

InitWatchlist ==
    /\ \/ rawItem \in {Some(r) : r \in StockItems}
          /\ rawWatch = Some(WatchlistResponse(None))
       \/ rawItem = Some(BaseItem)
          /\ rawWatch \in {Some(r) : r \in WatchlistResponses}
    /\ stock = Idle /\ watchlist = Idle
    /\ token = Undefined /\ parsed = Idle
    /\ rawBuy = None /\ rawSell = None /\ buyTx = Idle /\ sellTx = Idle
    /\ rawBroker = None /\ activity = Idle /\ summary = Idle
    /\ call = None /\ outcome = Idle
    /\ api = None /\ session = None /\ ui = None

SerializeStock ==
    /\ stock = Idle
    /\ stock' = IF serializeStockThrows(rawItem[1]) THEN Threw
                ELSE Returned(serializeStock(rawItem[1]))
    /\ UNCHANGED <<token, parsed, rawBuy, rawSell, buyTx, sellTx, rawBroker,
                   activity, summary, rawItem, rawWatch, watchlist, call, outcome,
                   api, session, ui>>

SerializeWatchlist ==
    /\ watchlist = Idle
    /\ watchlist' = serializeWatchlist(rawWatch[1])
    /\ UNCHANGED <<token, parsed, rawBuy, rawSell, buyTx, sellTx, rawBroker,
                   activity, summary, rawItem, stock, rawWatch, call, outcome,
                   api, session, ui>>

NextWatchlist == SerializeStock \/ SerializeWatchlist

SpecWatchlist == InitWatchlist /\ [][NextWatchlist]_vars

----------------------------------------------------------------------------
(* The parsing and formatting helpers on their own.  Init draws one call, a  *)
(* function name with its argument; each action makes the call of its name.  *)

Call(fn, arg) == Some([fn |-> fn, arg |-> arg])

\* Every text of at most n characters over the characters of A.
TextsOver(A, n) == UNION {[1..k -> A] : k \in 0..n}

LocaleAlphabet == {"0", "1", "5", ".", ",", "+", "-", "x"}

LocaleFixtures ==
    { Str("+1,234.56"), Str("-1,234.56"), Str("1,250.5"), Str("9,250"),
      Str("Infinity"), Str("12abc"), Str("abc"), Str("1e+5"), Str(" 42") }

LocaleTokens ==
    {Undefined, Null} \cup {Text(cs) : cs \in TextsOver(LocaleAlphabet, MaxTokLen)}
    \cup LocaleFixtures

ParseNumberCalls == {Call("parseNumber", t) : t \in LocaleTokens}

Mantissas == {0, 1, 5, 25, 999, 1005, 1234, 9995, 99995}

\* Finite values of either sign around every threshold, values past the range
\* where toFixed prints plain digits, and the values that are not finite.
MagnitudeValues ==
    { Fin(sgn * m, e) : sgn \in {1, -1}, m \in Mantissas, e \in -2..MaxExp }
    \cup { Fin(1, 33), Fin(-5, 40), NaN, PosInf, NegInf }

FormatValueCalls == {Call("formatValue", v) : v \in MagnitudeValues}

DateAlphabet == {"0", "1", "-"}

DateCodes ==
    {Undefined, Null} \cup {Text(cs) : cs \in TextsOver(DateAlphabet, MaxDateLen)}
    \cup { Str("20240315"), Str("19991231"), Str("bad"), Str("2024-03-15"),
           Str("202403150"), Str("2024/3/5"), Number(Fin(20240315, 0)) }

FormatDateCalls == {Call("formatDate", c) : c \in DateCodes}

CellAlphabet == {"0", "2", "5", ".", ",", "-", " ", "x"}

CellTexts ==
    TextsOver(CellAlphabet, MaxTokLen)
    \cup { Chars("2500"), Chars("-2500"), Chars("1,234,567"), Chars("12.5"),
           Chars("1234000000000"), Chars("-1,500,000,000"), Chars("999"),
           Chars("N/A"), Chars("Revenue"), Chars("1.5e3"), Chars("12%") }

RenderCellCalls ==
    { Call("renderCell", [cell |-> c, cellIdx |-> i]) :
        c \in CellTexts, i \in 0..MaxCol }

HelperCalls ==
    ParseNumberCalls \cup FormatValueCalls \cup FormatDateCalls
    \cup RenderCellCalls

InitHelpers ==
    /\ call \in HelperCalls
    /\ outcome = Idle
    /\ api = None /\ session = None /\ ui = None
    /\ token = Undefined /\ parsed = Idle
    /\ rawBuy = None /\ rawSell = None /\ buyTx = Idle /\ sellTx = Idle
    /\ rawBroker = None /\ activity = Idle /\ summary = Idle
    /\ rawItem = None /\ stock = Idle
    /\ rawWatch = None /\ watchlist = Idle

ParseNumber ==
    /\ outcome = Idle
    /\ call[1].fn = "parseNumber"
    /\ outcome' = IF parseNumberThrows(call[1].arg) THEN Threw
                  ELSE Returned(parseNumber(call[1].arg))
    /\ UNCHANGED <<token, parsed, rawBuy, rawSell, buyTx, sellTx, rawBroker,
                   activity, summary, rawItem, stock, rawWatch, watchlist, call,
                   api, session, ui>>

FormatValue ==
    /\ outcome = Idle
    /\ call[1].fn = "formatValue"
    /\ outcome' = Returned(formatValue(call[1].arg))
    /\ UNCHANGED <<token, parsed, rawBuy, rawSell, buyTx, sellTx, rawBroker,
                   activity, summary, rawItem, stock, rawWatch, watchlist, call,
                   api, session, ui>>

FormatDate ==
    /\ outcome = Idle
    /\ call[1].fn = "formatDate"
    /\ outcome' = Returned(formatDate(call[1].arg))
    /\ UNCHANGED <<token, parsed, rawBuy, rawSell, buyTx, sellTx, rawBroker,
                   activity, summary, rawItem, stock, rawWatch, watchlist, call,
                   api, session, ui>>

RenderCell ==
    /\ outcome = Idle
    /\ call[1].fn = "renderCell"
    /\ outcome' = Returned(renderCell(call[1].arg.cell, call[1].arg.cellIdx))
    /\ UNCHANGED <<token, parsed, rawBuy, rawSell, buyTx, sellTx, rawBroker,
                   activity, summary, rawItem, stock, rawWatch, watchlist, call,
                   api, session, ui>>

NextHelpers == ParseNumber \/ FormatValue \/ FormatDate \/ RenderCell

SpecHelpers == InitHelpers /\ [][NextHelpers]_vars

----------------------------------------------------------------------------
(* The HTML locator and the table parser on their own. *)

Leaves ==
    { DocString("note"), DocString("<table>A"), DocString("x<tr>B"),
      DocString("<td>C"), DocString("<t d"), DocNumber, DocNull }

Keys == {"html", "data", "2", "1"}

\* Sequences of at most n entries with leaf values and distinct keys.
EntriesUpTo(n) ==
    { e \in UNION { [1..k -> {Entry(key, v) : key \in Keys, v \in Leaves}] :
                    k \in 0..n } :
        \A i, j \in 1..Len(e) : i # j => e[i].key # e[j].key }

\* Arrays and objects of leaves.
FlatDocs ==
    {DocArray(a) : a \in SeqsUpTo(Leaves, MaxWidth)}
    \cup {DocObject(e) : e \in EntriesUpTo(MaxWidth)}

\* A few documents to nest further.
SampleDocs ==
    Leaves \cup
    { DocArray(<<>>), DocObject(<<>>),
      DocArray(<<DocString("note"), DocString("<td>C")>>),
      DocArray(<<DocNumber, DocNull>>),
      DocObject(<<Entry("html", DocString("x<tr>B"))>>),
      DocObject(<<Entry("2", DocString("<table>A")), Entry("1", DocString("<td>C"))>>),
      DocObject(<<Entry("data", DocString("note")), Entry("1", DocNumber)>>) }

NestedDocs ==
    { DocArray(<<a, b>>) : a \in SampleDocs, b \in SampleDocs }
    \cup { DocObject(<<Entry("message", a), Entry("data", b)>>) :
            a \in SampleDocs, b \in SampleDocs }
    \cup { DocObject(<<Entry("message", DocString("ok")),
                       Entry("data", DocObject(<<Entry("b", b), Entry("a", DocArray(<<a>>))>>))>>) :
            a \in SampleDocs, b \in SampleDocs }

Docs == Leaves \cup FlatDocs \cup NestedDocs

FindHtmlContentCalls == {Call("findHtmlContent", d) : d \in Docs}

HeaderRow == <<TableCell("th", "Name"), TableCell("th", " Q1 ")>>
DataRowA == <<TableCell("td", "Revenue"), TableCell("td", " 1,234 ")>>
DataRowB == <<TableCell("th", "Cost"), TableCell("td", "-")>>
DataRows == {DataRowA, DataRowB}
EmptyRow == <<>>
BlankRow == <<TableCell("td", ""), TableCell("td", "  ")>>

TableRows == {HeaderRow, EmptyRow, BlankRow} \cup DataRows

RowLists == SeqsUpTo(TableRows, MaxRows)

\* Tables of one section, and of two sections in the usual and unusual orders.
TableSources ==
    { <<Section(tag, rows)>> :
        tag \in {"none", "tbody", "thead", "tfoot"}, rows \in RowLists }
    \cup { <<Section(tags[1], a), Section(tags[2], b)>> :
            tags \in { <<"thead", "tbody">>, <<"thead", "none">>,
                       <<"tbody", "tfoot">>, <<"tfoot", "thead">>,
                       <<"tbody", "thead">> },
            a \in RowLists, b \in RowLists }
    \cup { <<>> }

SampleTables ==
    { <<>>,
      <<Section("none", <<EmptyRow>>)>>,
      <<Section("none", <<HeaderRow, DataRowA, DataRowB>>)>>,
      <<Section("thead", <<HeaderRow>>), Section("tbody", <<BlankRow>>)>>,
      <<Section("tbody", <<BlankRow>>)>> }

\* One table of any shape, or several sample tables.
HtmlTexts ==
    { <<table>> : table \in TableSources }
    \cup SeqsUpTo(SampleTables, MaxTables)

ParseHtmlTableCalls == {Call("parseHtmlTable", html) : html \in HtmlTexts}

HtmlCalls == FindHtmlContentCalls \cup ParseHtmlTableCalls

InitHtml ==
    /\ call \in HtmlCalls
    /\ outcome = Idle
    /\ api = None /\ session = None /\ ui = None
    /\ token = Undefined /\ parsed = Idle
    /\ rawBuy = None /\ rawSell = None /\ buyTx = Idle /\ sellTx = Idle
    /\ rawBroker = None /\ activity = Idle /\ summary = Idle
    /\ rawItem = None /\ stock = Idle
    /\ rawWatch = None /\ watchlist = Idle

FindHtmlContent ==
    /\ outcome = Idle
    /\ call[1].fn = "findHtmlContent"
    /\ outcome' = Returned(findHtmlContent(call[1].arg))
    /\ UNCHANGED <<token, parsed, rawBuy, rawSell, buyTx, sellTx, rawBroker,
                   activity, summary, rawItem, stock, rawWatch, watchlist, call,
                   api, session, ui>>

ParseHtmlTable ==
    /\ outcome = Idle
    /\ call[1].fn = "parseHtmlTable"
    /\ outcome' = Returned(parseHtmlTable(call[1].arg))
    /\ UNCHANGED <<token, parsed, rawBuy, rawSell, buyTx, sellTx, rawBroker,
                   activity, summary, rawItem, stock, rawWatch, watchlist, call,
                   api, session, ui>>

NextHtml == FindHtmlContent \/ ParseHtmlTable

SpecHtml == InitHtml /\ [][NextHtml]_vars

----------------------------------------------------------------------------
(* The routing endpoint /api/scrape.  A request is handled in steps: the    *)
(* handler runs to its first upstream fetch, and each upstream response     *)
(* resumes it.  api records the request, the upstream requests issued, the  *)
(* responses they got, the serializer calls made and the reply.             *)

\* type DataType: the operation names the endpoint declares.
DataType ==
    {"profile", "quote", "financials", "keystats", "price-performance",
     "stream", "search", "watchlist", "watchlist-summary", "watchlist-raw",
     "broker", "broker-summary", "broker-raw", "insider"}

\* One case of the switch: the parameter it requires, the upstream function
\* it awaits and the serializer it hands the result to.
Case(need, fn, serializer) ==
    Some([need |-> need, fn |-> fn, serializer |-> serializer])

\* switch (type) of GET; None is its default branch.
GetSwitch(type) ==
    CASE type = "financials" -> Case("symbol", "getStockFinancials", "none")
      [] type = "keystats" -> Case("symbol", "getStockKeyStats", "none")
      [] type = "price-performance" ->
            Case("symbol", "getStockPricePerformance", "none")
      [] type = "search" -> Case("query", "searchStocks", "none")
      [] type = "watchlist" -> Case("none", "getWatchlist", "serializeWatchlist")
      [] type = "watchlist-summary" ->
            Case("none", "getWatchlist", "serializeWatchlistSummary")
      [] type = "watchlist-raw" -> Case("none", "getWatchlist", "none")
      [] OTHER -> None

\* switch (type) of POST: the cases of GET, then the broker and insider cases.
PostSwitch(type) ==
    CASE type = "broker" ->
            Case("brokerCode", "getBrokerActivity", "serializeBrokerActivity")
      [] type = "broker-summary" ->
            Case("brokerCode", "getBrokerActivity", "serializeBrokerActivitySummary")
      [] type = "broker-raw" -> Case("brokerCode", "getBrokerActivity", "none")
      [] type = "insider" -> Case("none", "getInsiderActivity", "data")
      [] OTHER -> GetSwitch(type)

\* The bearer token of the Authorization header: null (None) without the
\* "Bearer " prefix, the rest of the header after it otherwise.
AccessToken(authHeader) ==
    IF authHeader # None /\ StartsWith(authHeader[1], 1, Chars("Bearer "))
    THEN Some(SubSeq(authHeader[1], 8, Len(authHeader[1])))
    ELSE None

\* NextResponse.json(body, {status}).
Json(status, body) == Some([status |-> status, body |-> body])

\* The message of the Error a fetcher throws on a non-2xx response; the
\* watchlist, broker and insider fetchers put the status code before the text.
Failed(fn, response) ==
    [ failed |-> fn,
      status |-> IF fn \in {"getWatchlist", "getBrokerActivity", "getInsiderActivity"}
                 THEN Some(response.status) ELSE None,
      statusText |-> Some(response.statusText) ]

\* The message of an error that is not about an upstream status.
Message(text) == [failed |-> text, status |-> None, statusText |-> None]

\* An upstream request: the fetcher that issues it, its path and its query.
Upstream(fn, path, params) == [fn |-> fn, path |-> path, params |-> params]

\* The first fetch of a fetcher; getWatchlist starts by listing the watchlists.
FirstFetch(fn) ==
    IF fn = "getWatchlist"
    THEN Upstream(fn, <<"watchlist">>, {"page=1", "limit=500"})
    ELSE Upstream(fn, <<fn>>, {})

\* A handler from its entry to its first upstream fetch or to its reply.
\* request.json says whether request.json() yields an object; an absent type
\* is "profile", and so is an empty one in GET (|| "profile").
Enter(request) ==
    LET req == [request |-> request, pc |-> "done", calls |-> <<>>,
                responses |-> <<>>, invoked |-> <<>>, reply |-> None]
        type == IF request.type = None THEN "profile"
                ELSE IF request.method = "GET" /\ request.type[1] = "" THEN "profile"
                ELSE request.type[1]
        accessToken == AccessToken(request.authorization)
        case == IF request.method = "GET" THEN GetSwitch(type) ELSE PostSwitch(type)
    IN  IF ~request.json
        THEN [req EXCEPT !.reply = Json(500, [error |-> Message("SyntaxError")])]
        ELSE IF accessToken = None \/ accessToken = Some(<<>>)
        THEN [req EXCEPT !.reply = Json(401, [error |-> Message("Access token is required")])]
        ELSE IF case = None
        THEN [req EXCEPT !.reply = Json(400, [error |-> Message("Invalid type")])]
        ELSE IF case[1].need # "none" /\ case[1].need \notin request.given
        THEN [req EXCEPT !.reply = Json(400, [error |-> Message("required")])]
        ELSE [req EXCEPT !.pc = IF case[1].fn = "getWatchlist" THEN "list" ELSE "fetch",
                         !.calls = <<FirstFetch(case[1].fn)>>]

\* The handler's catch: status 500 with the message of the error.
Caught(req, message) ==
    [req EXCEPT !.pc = "done", !.reply = Json(500, [error |-> message])]

ListSettled_unchecked(req, response) ==
    [req EXCEPT !.responses = Append(@, response),
                !.pc = "fetch",
                !.calls = Append(@, Upstream("getWatchlist",
                              <<"watchlist",
                                IF response.ids = <<>> THEN 0 ELSE response.ids[1]>>,
                              {"page=1", "limit=500", "setfincol=1"}))]

\* getWatchlist resumed by the response to the list request.
ListSettled(req, response) ==
    The({ IF response.rejected THEN Caught(r, Message("fetch failed"))
          ELSE IF ~response.ok THEN Caught(r, Failed("getWatchlist", response))
          ELSE IF response.ids = <<>> THEN Caught(r, Message("TypeError"))
          ELSE [r EXCEPT !.pc = "fetch",
                         !.calls = Append(@, Upstream("getWatchlist",
                                       <<"watchlist", response.ids[1]>>,
                                       {"page=1", "limit=500", "setfincol=1"}))] :
          r \in {[req EXCEPT !.responses = Append(@, response)]} })

\* A handler resumed by the response to its last upstream request: the
\* fetcher returns the body (getWatchlist whatever the status, the others
\* after their response.ok test), the case hands it to its serializer and the
\* handler replies.  A serializer throws on a body without a data object.
FetchSettled(req, response) ==
    The({ IF response.rejected THEN Caught(r, Message("fetch failed"))
          ELSE IF case.fn # "getWatchlist" /\ ~response.ok
          THEN Caught(r, Failed(case.fn, response))
          ELSE IF case.serializer = "none"
          THEN [r EXCEPT !.pc = "done",
                         !.reply = Json(200, [success |-> TRUE,
                                              data |-> <<"raw", response>>])]
          ELSE IF case.serializer = "data"
          THEN [r EXCEPT !.pc = "done",
                         !.reply = Json(200, [success |-> TRUE,
                                              data |-> <<"data", response>>])]
          ELSE IF response.body = "error"
          THEN Caught([r EXCEPT !.invoked = Append(@, <<case.serializer, response>>)],
                      Message("TypeError"))
          ELSE [r EXCEPT !.pc = "done",
                         !.invoked = Append(@, <<case.serializer, response>>),
                         !.reply = Json(200, [success |-> TRUE,
                                              data |-> <<case.serializer, response>>])] :
          r \in {[req EXCEPT !.responses = Append(@, response)]},
          case \in {(IF req.request.method = "GET"
                     THEN GetSwitch(req.request.type[1])
                     ELSE PostSwitch(req.request.type[1]))[1]} })

AuthorizationHeaders ==
    {None} \cup
    {Some(Chars(h)) : h \in {"Bearer abc", "Bearer ", "Bearer", "bearer abc",
                             "Basic abc", "abc", ""}}

TypeNames == {None} \cup {Some(t) : t \in DataType \cup {"dividend", ""}}

Requests ==
    [ method : {"GET", "POST"},
      authorization : AuthorizationHeaders,
      json : BOOLEAN,
      type : TypeNames,
      given : SUBSET {"symbol", "query", "brokerCode"} ]

\* What an upstream request can end in: a network error, or a response with
\* a status and a body; ids are the watchlist_id of the entries of data.
UpstreamResponses ==
    { [rejected |-> TRUE, ok |-> FALSE, status |-> 0, statusText |-> "",
       body |-> "error", ids |-> <<>>] }
    \cup { [rejected |-> FALSE, ok |-> TRUE, status |-> 200, statusText |-> "OK",
            body |-> b, ids |-> i] :
           b \in {"payload", "partial", "error"}, i \in {<<>>, <<7>>, <<9, 7>>} }
    \cup { [rejected |-> FALSE, ok |-> FALSE, status |-> s[1], statusText |-> s[2],
            body |-> b, ids |-> <<>>] :
           s \in {<<401, "Unauthorized">>, <<500, "Internal Server Error">>},
           b \in {"partial", "error"} }

InitRoute ==
    /\ api = None
    /\ session = None /\ ui = None
    /\ call = None /\ outcome = Idle
    /\ token = Undefined /\ parsed = Idle
    /\ rawBuy = None /\ rawSell = None /\ buyTx = Idle /\ sellTx = Idle
    /\ rawBroker = None /\ activity = Idle /\ summary = Idle
    /\ rawItem = None /\ stock = Idle
    /\ rawWatch = None /\ watchlist = Idle

\* GET /api/scrape arrives; a GET has no body to parse.
GET ==
    /\ api = None
    /\ \E request \in Requests :
          /\ request.method = "GET" /\ request.json
          /\ api' = Some(Enter(request))
    /\ UNCHANGED <<token, parsed, rawBuy, rawSell, buyTx, sellTx, rawBroker,
                   activity, summary, rawItem, stock, rawWatch, watchlist,
                   call, outcome, session, ui>>

\* POST /api/scrape arrives.
POST ==
    /\ api = None
    /\ \E request \in Requests :
          /\ request.method = "POST"
          /\ api' = Some(Enter(request))
    /\ UNCHANGED <<token, parsed, rawBuy, rawSell, buyTx, sellTx, rawBroker,
                   activity, summary, rawItem, stock, rawWatch, watchlist,
                   call, outcome, session, ui>>

\* The list-watchlists request of getWatchlist settles.
WatchlistListed ==
    /\ api # None /\ api[1].pc = "list"
    /\ \E response \in UpstreamResponses :
          api' = Some(ListSettled(api[1], response))
    /\ UNCHANGED <<token, parsed, rawBuy, rawSell, buyTx, sellTx, rawBroker,
                   activity, summary, rawItem, stock, rawWatch, watchlist,
                   call, outcome, session, ui>>

\* The last upstream request of the handler settles.
Fetched ==
    /\ api # None /\ api[1].pc = "fetch"
    /\ \E response \in UpstreamResponses :
          api' = Some(FetchSettled(api[1], response))
    /\ UNCHANGED <<token, parsed, rawBuy, rawSell, buyTx, sellTx, rawBroker,
                   activity, summary, rawItem, stock, rawWatch, watchlist,
                   call, outcome, session, ui>>

NextRoute == GET \/ POST \/ WatchlistListed \/ Fetched

SpecRoute == InitRoute /\ [][NextRoute]_vars

----------------------------------------------------------------------------
(* Token refresh.  AuthContext holds the access token and the refresh       *)
(* token; refreshAccessToken posts the refresh token to /api/refresh, whose *)
(* handler posts it to the upstream refresh endpoint.                       *)

\* left || right on two optional strings: left unless it is absent or empty.
OrElse(left, right) == IF left = None \/ left = Some("") THEN right ELSE left

\* POST /api/refresh from the upstream response on: a rejected fetch or a
\* non-2xx status throws and is answered 401, a 2xx status is answered with
\* the tokens of data.data, else of data.  An undefined property is left out
\* of the JSON body (None).
RefreshReply(response) ==
    IF response.rejected \/ ~response.ok
    THEN [ok |-> FALSE, status |-> 401, accessToken |-> None, refreshToken |-> None]
    ELSE [ok |-> TRUE, status |-> 200,
          accessToken |-> OrElse(response.nested[1], response.flat[1]),
          refreshToken |-> OrElse(response.nested[2], response.flat[2])]

Resume_alwaysReplaces(s, reply) ==
    IF reply = None \/ ~reply[1].ok
    THEN [s EXCEPT !.pc = "idle", !.returned = Some(FALSE)]
    ELSE [s EXCEPT !.pc = "idle", !.returned = Some(TRUE),
                   !.accessToken = reply[1].accessToken,
                   !.refreshToken = reply[1].refreshToken]

\* refreshAccessToken of AuthContext from its await on: reply is None when
\* the fetch throws.
Resume(s, reply) ==
    IF reply = None \/ ~reply[1].ok
    THEN [s EXCEPT !.pc = "idle", !.returned = Some(FALSE)]
    ELSE [s EXCEPT !.pc = "idle", !.returned = Some(TRUE),
                   !.accessToken = reply[1].accessToken,
                   !.refreshToken = IF reply[1].refreshToken \in {None, Some("")}
                                    THEN @ ELSE reply[1].refreshToken]

\* What the upstream refresh request can end in; nested and flat are the
\* access_token and refresh_token of data.data and of data.
RefreshResponses ==
    { [rejected |-> TRUE, ok |-> FALSE, nested |-> <<None, None>>,
       flat |-> <<None, None>>],
      [rejected |-> FALSE, ok |-> FALSE, nested |-> <<None, None>>,
       flat |-> <<None, None>>] }
    \cup { [rejected |-> FALSE, ok |-> TRUE, nested |-> n, flat |-> f] :
           n \in {<<None, None>>, <<Some("a1"), Some("r1")>>},
           f \in {<<None, None>>, <<Some("a2"), None>>, <<Some("a2"), Some("")>>,
                  <<Some("a2"), Some("r2")>>} }

InitSession ==
    /\ session \in
          { Some([accessToken |-> a, refreshToken |-> r, pc |-> "idle",
                  attempts |-> 0, posts |-> 0, upstreamPosts |-> 0,
                  before |-> <<a, r>>, reply |-> None, returned |-> None]) :
            a \in {Some(""), Some("a0")}, r \in {Some(""), Some("r0")} }
    /\ api = None /\ ui = None
    /\ call = None /\ outcome = Idle
    /\ token = Undefined /\ parsed = Idle
    /\ rawBuy = None /\ rawSell = None /\ buyTx = Idle /\ sellTx = Idle
    /\ rawBroker = None /\ activity = Idle /\ summary = Idle
    /\ rawItem = None /\ stock = Idle
    /\ rawWatch = None /\ watchlist = Idle

\* refreshAccessToken() is called: it returns false on an empty refresh
\* token and posts to /api/refresh otherwise.
RefreshAccessToken ==
    /\ session[1].pc = "idle"
    /\ session[1].attempts < MaxRefreshes
    /\ session' =
          Some(The({ IF s.refreshToken = Some("")
                     THEN [s EXCEPT !.returned = Some(FALSE)]
                     ELSE [s EXCEPT !.pc = "posted", !.posts = 1] :
                     s \in {[session[1] EXCEPT
                                !.attempts = @ + 1, !.posts = 0,
                                !.upstreamPosts = 0,
                                !.before = <<session[1].accessToken,
                                             session[1].refreshToken>>,
                                !.reply = None, !.returned = None]} }))
    /\ UNCHANGED <<token, parsed, rawBuy, rawSell, buyTx, sellTx, rawBroker,
                   activity, summary, rawItem, stock, rawWatch, watchlist,
                   call, outcome, api, ui>>

\* POST /api/refresh receives the request and posts to the upstream refresh
\* endpoint.
RefreshPOST ==
    /\ session[1].pc = "posted"
    /\ session' = Some([session[1] EXCEPT !.pc = "upstream", !.upstreamPosts = @ + 1])
    /\ UNCHANGED <<token, parsed, rawBuy, rawSell, buyTx, sellTx, rawBroker,
                   activity, summary, rawItem, stock, rawWatch, watchlist,
                   call, outcome, api, ui>>

\* The upstream refresh request settles and POST /api/refresh replies.
RefreshReplied ==
    /\ session[1].pc = "upstream"
    /\ \E response \in RefreshResponses :
          session' = Some([session[1] EXCEPT
                              !.pc = "replied",
                              !.reply = Some(RefreshReply(response))])
    /\ UNCHANGED <<token, parsed, rawBuy, rawSell, buyTx, sellTx, rawBroker,
                   activity, summary, rawItem, stock, rawWatch, watchlist,
                   call, outcome, api, ui>>

\* The fetch of refreshAccessToken settles: with the reply of /api/refresh,
\* or with a network error at any time after the request was sent.
RefreshSettled ==
    /\ \/ /\ session[1].pc = "replied"
          /\ session' = Some(Resume(session[1], session[1].reply))
       \/ /\ session[1].pc \in {"posted", "upstream", "replied"}
          /\ session' = Some(Resume([session[1] EXCEPT !.reply = None], None))
    /\ UNCHANGED <<token, parsed, rawBuy, rawSell, buyTx, sellTx, rawBroker,
                   activity, summary, rawItem, stock, rawWatch, watchlist,
                   call, outcome, api, ui>>

NextSession == RefreshAccessToken \/ RefreshPOST \/ RefreshReplied \/ RefreshSettled

SpecSession == InitSession /\ [][NextSession]_vars

----------------------------------------------------------------------------
(* The dashboard pages.  Each page keeps loading, error and its data in     *)
(* React state; its fetch function posts to /api/scrape and its            *)
(* continuation runs when the request settles (the keystats page awaits two *)
(* requests with Promise.all).  ui is the state of one page, with the       *)
(* requests of its last fetch and the data it held when that fetch began.   *)

Pages == {"quote", "stream", "watchlist", "financials", "keystats", "broker", "insider"}

\* The pages whose fetch tests a symbol or broker code after the token.
NeedsInput(page) == page \in {"quote", "stream", "financials", "keystats", "broker"}

\* The types a page's fetch posts, one request each.
RequestTypes(page) ==
    IF page = "keystats" THEN <<"keystats", "price-performance">>
    ELSE IF page = "broker" THEN <<"broker-summary">>
    ELSE <<page>>

\* The tables an HTML text of the financial fixtures is written with.
StatementTable == <<Section("thead", <<HeaderRow>>), Section("tbody", <<DataRowA>>)>>
Written(cs) ==
    IF cs = Chars("<table>1") THEN <<StatementTable>>
    ELSE IF cs = Chars("<table>2") THEN <<StatementTable, StatementTable>>
    ELSE IF cs = Chars("<table>3") THEN <<StatementTable, StatementTable, StatementTable>>
    ELSE <<>>

parsedTables_unguarded(financials) ==
    IF financials = None THEN [found |-> None, parsed |-> FALSE, tables |-> <<>>]
    ELSE The({ [found |-> htmlContent, parsed |-> TRUE,
                tables |-> IF htmlContent = None THEN <<>>
                           ELSE parseHtmlTable(Written(htmlContent[1]))] :
               htmlContent \in {findHtmlContent(financials[1].doc)} })

\* useMemo of FinancialsPage: the string found, whether parseHtmlTable was
\* called, and the parsed tables.
parsedTables(financials) ==
    IF financials = None THEN [found |-> None, parsed |-> FALSE, tables |-> <<>>]
    ELSE The({ IF htmlContent = None
               THEN [found |-> None, parsed |-> FALSE, tables |-> <<>>]
               ELSE [found |-> htmlContent, parsed |-> TRUE,
                     tables |-> parseHtmlTable(Written(htmlContent[1]))] :
               htmlContent \in {findHtmlContent(financials[1].doc)} })

Begin_keepsIndex(u, newPage) ==
    The({ IF v.accessToken = ""
          THEN [v EXCEPT !.error = "Please enter your access token first",
                         !.last = "refused"]
          ELSE IF NeedsInput(v.page) /\ v.input = ""
          THEN [v EXCEPT !.error = "Please enter a symbol or code", !.last = "refused"]
          ELSE [v EXCEPT !.loading = TRUE, !.error = "",
                         !.last = "pending",
                         !.requests = [i \in 1..Len(RequestTypes(v.page)) |->
                                         [type |-> RequestTypes(v.page)[i],
                                          response |-> None]]] :
          v \in {[u EXCEPT !.fetches = @ + 1, !.newPage = newPage,
                           !.requests = <<>>,
                           !.before = [data |-> u.data, extra |-> u.extra,
                                       pageNo |-> u.pageNo]]} })

\* A fetch function from its call to its await: the token and input tests,
\* setLoading(true), setError(""), setActiveTableIndex(0) on the financials
\* page, and the requests.
Begin(u, newPage) ==
    The({ IF v.accessToken = ""
          THEN [v EXCEPT !.error = "Please enter your access token first",
                         !.last = "refused"]
          ELSE IF NeedsInput(v.page) /\ v.input = ""
          THEN [v EXCEPT !.error = "Please enter a symbol or code", !.last = "refused"]
          ELSE [v EXCEPT !.loading = TRUE, !.error = "",
                         !.activeTableIndex = IF v.page = "financials" THEN 0 ELSE @,
                         !.last = "pending",
                         !.requests = [i \in 1..Len(RequestTypes(v.page)) |->
                                         [type |-> RequestTypes(v.page)[i],
                                          response |-> None]]] :
          v \in {[u EXCEPT !.fetches = @ + 1, !.newPage = newPage,
                           !.requests = <<>>,
                           !.before = [data |-> u.data, extra |-> u.extra,
                                       pageNo |-> u.pageNo]]} })

\* The awaited fetch, or Promise.all of the two, has settled: one request was
\* rejected, or every request has its response.
Settles(requests) ==
    \/ \E i \in 1..Len(requests) :
          requests[i].response # None /\ requests[i].response[1].kind = "rejected"
    \/ \A i \in 1..Len(requests) : requests[i].response # None

Finish_noFinally(u) ==
    IF (\E i \in 1..Len(u.requests) :
           u.requests[i].response # None
           /\ u.requests[i].response[1].kind = "rejected")
       \/ u.requests[1].response[1].kind = "bad"
    THEN [u EXCEPT !.error = "Failed to fetch", !.last = "failed"]
    ELSE [u EXCEPT !.loading = FALSE, !.last = "done",
                   !.data = Some(u.requests[1].response[1].data)]

\* A fetch function from its await on: a rejected fetch and a non-2xx first
\* response go to catch (setError); otherwise the data setters run, with
\* json.data of each response (undefined, None, in an error body); finally
\* setLoading(false).
Finish(u) ==
    IF \E i \in 1..Len(u.requests) :
           u.requests[i].response # None
           /\ u.requests[i].response[1].kind = "rejected"
    THEN [u EXCEPT !.loading = FALSE, !.error = "Failed to fetch", !.last = "failed"]
    ELSE IF u.requests[1].response[1].kind = "bad"
    THEN [u EXCEPT !.loading = FALSE, !.error = u.requests[1].response[1].error,
                   !.last = "failed"]
    ELSE [u EXCEPT !.loading = FALSE, !.last = "done",
                   !.data = Some(u.requests[1].response[1].data),
                   !.extra = IF u.page # "keystats" THEN @
                             ELSE IF u.requests[2].response[1].kind = "ok"
                             THEN Some(u.requests[2].response[1].data)
                             ELSE None,
                   !.pageNo = IF u.page = "insider" THEN u.newPage ELSE @]

\* Response documents of the financials type.
FinancialDocs ==
    { DocObject(<<>>),
      DocObject(<<Entry("message", DocString("ok")), Entry("data", DocArray(<<>>))>>),
      DocObject(<<Entry("data", DocObject(<<Entry("note", DocString("n/a")),
                                           Entry("html", DocString("<table>1"))>>))>>),
      DocObject(<<Entry("html", DocString("<table>3"))>>),
      DocArray(<<DocNumber, DocString("<table>2")>>),
      DocString("<td>") }

\* What a request of the n-th fetch can end in: a network error, a non-2xx
\* reply {error}, or a 2xx reply {success, data}.
PageResponses(page, n) ==
    { [kind |-> "rejected"], [kind |-> "bad", error |-> "Failed to fetch data: Unauthorized"] }
    \cup { [kind |-> "ok", data |-> d] :
           d \in IF page = "financials"
                 THEN {[id |-> n, doc |-> doc] : doc \in FinancialDocs}
                 ELSE {[id |-> n]} }

InitPages ==
    /\ ui \in { Some([page |-> p, accessToken |-> a, input |-> s,
                      loading |-> FALSE, error |-> "", data |-> None,
                      extra |-> None, pageNo |-> 1, activeTableIndex |-> 0,
                      requests |-> <<>>, newPage |-> 1, fetches |-> 0,
                      last |-> "none",
                      before |-> [data |-> None, extra |-> None, pageNo |-> 1]]) :
                p \in Pages, a \in {"", "token"}, s \in {"", "BBCA"} }
    /\ api = None /\ session = None
    /\ call = None /\ outcome = Idle
    /\ token = Undefined /\ parsed = Idle
    /\ rawBuy = None /\ rawSell = None /\ buyTx = Idle /\ sellTx = Idle
    /\ rawBroker = None /\ activity = Idle /\ summary = Idle
    /\ rawItem = None /\ stock = Idle
    /\ rawWatch = None /\ watchlist = Idle

\* The fetch function is called from its button, which is disabled while
\* loading; the insider page also calls it for the previous and next page.
Fetch ==
    /\ ~ui[1].loading
    /\ ui[1].fetches < MaxFetches
    /\ \E newPage \in {1, ui[1].pageNo + 1, ui[1].pageNo - 1} :
          /\ newPage >= 1
          /\ newPage # 1 => ui[1].page = "insider" /\ ui[1].data # None
          /\ ui' = Some(Begin(ui[1], newPage))
    /\ UNCHANGED <<token, parsed, rawBuy, rawSell, buyTx, sellTx, rawBroker,
                   activity, summary, rawItem, stock, rawWatch, watchlist,
                   call, outcome, api, session>>

\* One request of the fetch in progress settles; the fetch function resumes
\* when its await settles.
Settled ==
    /\ ui[1].last = "pending"
    /\ \E i \in 1..Len(ui[1].requests) :
          /\ ui[1].requests[i].response = None
          /\ \E response \in PageResponses(ui[1].page, ui[1].fetches) :
                ui' = Some(The({ IF Settles(u.requests) THEN Finish(u) ELSE u :
                                 u \in {[ui[1] EXCEPT
                                           !.requests[i].response = Some(response)]} }))
    /\ UNCHANGED <<token, parsed, rawBuy, rawSell, buyTx, sellTx, rawBroker,
                   activity, summary, rawItem, stock, rawWatch, watchlist,
                   call, outcome, api, session>>

\* A table tab is clicked: the tabs show when the tables are displayed and
\* there is more than one.
SelectTable ==
    /\ ui[1].page = "financials"
    /\ ui[1].data # None /\ ~ui[1].loading
    /\ Len(parsedTables(ui[1].data).tables) > 1
    /\ \E idx \in 0..(Len(parsedTables(ui[1].data).tables) - 1) :
          ui' = Some([ui[1] EXCEPT !.activeTableIndex = idx])
    /\ UNCHANGED <<token, parsed, rawBuy, rawSell, buyTx, sellTx, rawBroker,
                   activity, summary, rawItem, stock, rawWatch, watchlist,
                   call, outcome, api, session>>

NextPages == Fetch \/ Settled \/ SelectTable

SpecPages == InitPages /\ [][NextPages]_vars

\* Every request a page has sent settles in the end.
SpecPagesFair == SpecPages /\ WF_vars(Settled)

----------------------------------------------------------------------------
(* Claims. *)

\* s is, from its first to its last character, a decimal or scientific
\* numeral: [+-]? (D+ (. D*)? | . D+) ([eE] [+-]? D+)?
WellFormedNumeral(s) ==
    LET sgn == IF Len(s) >= 1 /\ s[1] \in {"+", "-"} THEN 1 ELSE 0
        nInt == DigitRun(s, sgn + 1)
        p == sgn + 1 + nInt
        dot == p <= Len(s) /\ s[p] = "."
        nFrac == IF dot THEN DigitRun(s, p + 1) ELSE 0
        q == IF dot THEN p + 1 + nFrac ELSE p
        esgn == IF q + 1 <= Len(s) /\ s[q + 1] \in {"+", "-"} THEN 1 ELSE 0
        nExp == DigitRun(s, q + 1 + esgn)
    IN  /\ nInt + nFrac >= 1
        /\ \/ q = Len(s) + 1
           \/ /\ q <= Len(s) /\ s[q] \in {"e", "E"}
              /\ nExp >= 1
              /\ q + esgn + nExp = Len(s)

\* C10: parseScientific returns a number argument unchanged, 0 for an absent,
\* null or empty token, the value of a string that is a well-formed numeral of
\* a finite number ("1.5E+09" gives 1500000000), and 0 for every other string,
\* so that the result for a string is always finite.
C10_ParseScientificTotal ==
    parsed.status = "returned" =>
        LET r == parsed.value IN
        /\ token.t = "number" => r = token.n
        /\ token.t \in {"undefined", "null"} => r = Zero
        /\ token.t = "string" =>
            /\ isFinite(r)
            /\ token.s = <<>> => r = Zero
            /\ token = Str("1.5E+09") => r = Fin(15, 8)
            /\ IF WellFormedNumeral(token.s) /\ isFinite(parseFloat(token.s))
               THEN r = parseFloat(token.s)
               ELSE r = Zero

\* C2: a serialized sell record stores sellLot and sellValue as the non-negative
\* magnitudes of the parsed slot and sval, netLot and netValue as their
\* negations, and sellAvgPrice as parsed, with its sign (slot "-1.5E+03" gives
\* sellLot 1500 and netLot -1500).
C2_SellSignInvariant ==
    sellTx.status = "returned" =>
        LET r == sellTx.value
            raw == rawSell[1]
        IN  /\ JsGe(r.sellLot, Zero) /\ JsGe(r.sellValue, Zero)
            /\ r.sellLot \in {parseScientific(raw.slot), JsNeg(parseScientific(raw.slot))}
            /\ r.sellValue \in {parseScientific(raw.sval), JsNeg(parseScientific(raw.sval))}
            /\ r.netLot = JsNeg(r.sellLot)
            /\ r.netValue = JsNeg(r.sellValue)
            /\ r.sellAvgPrice = parseScientific(raw.netbs_sell_avg_price)
            /\ raw.slot = Str("-1.5E+03") => r.sellLot = Fin(15, 2) /\ r.netLot = Fin(-15, 2)
            /\ raw.netbs_sell_avg_price = Str("-1E+02") => r.sellAvgPrice = Fin(-1, 2)

C2_Witness ==
    /\ sellTx.status = "returned"
    /\ rawSell[1].slot = Str("-1.5E+03")
    /\ rawSell[1].sval = Str("-3E+06")
    /\ sellTx.value.sellLot = Fin(15, 2)
    /\ sellTx.value.netValue = Fin(-3, 6)

\* Both formatted fields of the buy side, or both of the sell side, are "-".
OneSided(r) ==
    \/ r.buyValueFormatted = <<"-">> /\ r.buyAvgPriceFormatted = <<"-">>
    \/ r.sellValueFormatted = <<"-">> /\ r.sellAvgPriceFormatted = <<"-">>

\* C3: a serialized buy record has netLot = buyLot and netValue = buyValue,
\* parsed with no sign change, its sell numbers 0 and its sell-side formatted
\* fields "-"; a serialized sell record has its buy numbers 0 and its buy-side
\* formatted fields "-"; no record has formatted fields on both sides.
C3_OneSidedRecords ==
    /\ buyTx.status = "returned" =>
        LET r == buyTx.value
            raw == rawBuy[1]
        IN  /\ r.buyLot = parseScientific(raw.blot)
            /\ r.buyValue = parseScientific(raw.bval)
            /\ r.netLot = r.buyLot /\ r.netValue = r.buyValue
            /\ raw.blot = Str("-1.5E+03") => r.netLot = Fin(-15, 2)
            /\ r.sellLot = Zero /\ r.sellValue = Zero /\ r.sellAvgPrice = Zero
            /\ r.sellValueFormatted = <<"-">> /\ r.sellAvgPriceFormatted = <<"-">>
            /\ OneSided(r)
    /\ sellTx.status = "returned" =>
        LET r == sellTx.value
        IN  /\ r.buyLot = Zero /\ r.buyValue = Zero /\ r.buyAvgPrice = Zero
            /\ r.buyValueFormatted = <<"-">> /\ r.buyAvgPriceFormatted = <<"-">>
            /\ OneSided(r)

C3_Witness ==
    /\ buyTx.status = "returned" /\ sellTx.status = "returned"
    /\ rawBuy[1].blot = Str("1.5E+03") /\ rawBuy[1].bval = Str("1.5E+09")
    /\ buyTx.value.netValue = Fin(15, 8)
    /\ buyTx.value.buyValueFormatted = Chars("1.50B")
    /\ sellTx.value.sellValueFormatted = Chars("1.50B")

\* The upstream buy and sell sequences of the response being serialized.
UpstreamBuys == OrEmpty(rawBroker[1].data.broker_summary[1].brokers_buy)
UpstreamSells == OrEmpty(rawBroker[1].data.broker_summary[1].brokers_sell)

\* C1: serializeBrokerActivity returns netValue = totalBuyValue - totalSellValue
\* and netLot = totalBuyLot - totalSellLot for every mix of buy and sell
\* records; with both sequences empty or absent the four totals and the two
\* nets are 0.
C1_NetIdentity ==
    activity.status = "returned" =>
        LET r == activity.value IN
        /\ r.netValue = JsSub(r.totalBuyValue, r.totalSellValue)
        /\ r.netLot = JsSub(r.totalBuyLot, r.totalSellLot)
        /\ UpstreamBuys = <<>> /\ UpstreamSells = <<>> =>
            /\ r.totalBuyValue = Zero /\ r.totalBuyLot = Zero
            /\ r.totalSellValue = Zero /\ r.totalSellLot = Zero
            /\ r.netValue = Zero /\ r.netLot = Zero

C1_Witness ==
    /\ activity.status = "returned"
    /\ Len(UpstreamBuys) = 2 /\ Len(UpstreamSells) = 1
    /\ activity.value.totalBuyValue = Fin(150025, 4)
    /\ activity.value.totalSellValue = Fin(3, 6)
    /\ activity.value.netValue = Fin(149725, 4)
    /\ activity.value.netLot = Fin(25, 0)

\* The sum of the numbers F(t) over the records t of array, from the left.
RECURSIVE TotalUpTo(_, _, _)
TotalUpTo(F(_), array, n) ==
    IF n = 0 THEN Zero ELSE JsAdd(TotalUpTo(F, array, n - 1), F(array[n]))

\* C4: buyTransactions and sellTransactions have the length and the order of
\* the upstream sequences (an absent one counts as empty), the four totals are
\* the sums of buyValue, buyLot, sellValue and sellLot over them, and
\* totalSellValue and totalSellLot are never negative.
C4_OrderAndTotals ==
    activity.status = "returned" =>
        LET r == activity.value
            bt == r.buyTransactions
            st == r.sellTransactions
        IN  /\ Len(bt) = Len(UpstreamBuys) /\ Len(st) = Len(UpstreamSells)
            /\ \A i \in 1..Len(bt) :
                  /\ bt[i].stockCode = UpstreamBuys[i].netbs_stock_code
                  /\ bt[i].buyLot = parseScientific(UpstreamBuys[i].blot)
            /\ \A i \in 1..Len(st) :
                  /\ st[i].stockCode = UpstreamSells[i].netbs_stock_code
                  /\ st[i].netLot
                       \in { parseScientific(UpstreamSells[i].slot),
                             JsNeg(parseScientific(UpstreamSells[i].slot)) }
            /\ r.totalBuyValue = TotalUpTo(LAMBDA t : t.buyValue, bt, Len(bt))
            /\ r.totalBuyLot = TotalUpTo(LAMBDA t : t.buyLot, bt, Len(bt))
            /\ r.totalSellValue = TotalUpTo(LAMBDA t : t.sellValue, st, Len(st))
            /\ r.totalSellLot = TotalUpTo(LAMBDA t : t.sellLot, st, Len(st))
            /\ JsGe(r.totalSellValue, Zero) /\ JsGe(r.totalSellLot, Zero)

C4_Witness ==
    /\ activity.status = "returned"
    /\ Len(UpstreamBuys) = 2 /\ Len(UpstreamSells) = 2
    /\ UpstreamBuys[1].netbs_stock_code = "TLKM"
    /\ activity.value.buyTransactions[1].stockCode = "TLKM"
    /\ activity.value.buyTransactions[2].stockCode = "BBCA"
    /\ activity.value.sellTransactions[1].stockCode = "BMRI"
    /\ activity.value.sellTransactions[2].stockCode = "BBCA"
    /\ activity.value.totalSellValue = Fin(1503, 6)
    /\ activity.value.totalSellLot = Fin(175, 1)

\* C5: the summary agrees with the full serializer: its i-th sell entry has the
\* lot and value of the i-th full sell record's sellLot and sellValue, its
\* i-th buy entry those of buyLot and buyValue, and its three total strings
\* are the full serializer's three formatted totals.
C5_SummaryAgrees ==
    activity.status = "returned" /\ summary.status = "returned" =>
        LET a == activity.value
            q == summary.value
        IN  /\ Len(q.buys) = Len(a.buyTransactions)
            /\ Len(q.sells) = Len(a.sellTransactions)
            /\ \A i \in 1..Len(q.buys) :
                  /\ q.buys[i].lot = a.buyTransactions[i].buyLot
                  /\ q.buys[i].value = a.buyTransactions[i].buyValue
            /\ \A i \in 1..Len(q.sells) :
                  /\ q.sells[i].lot = a.sellTransactions[i].sellLot
                  /\ q.sells[i].value = a.sellTransactions[i].sellValue
                  /\ JsGe(q.sells[i].lot, Zero) /\ JsGe(q.sells[i].value, Zero)
            /\ q.totalBuyValue = a.totalBuyValueFormatted
            /\ q.totalSellValue = a.totalSellValueFormatted
            /\ q.netValue = a.netValueFormatted

C5_Witness ==
    /\ activity.status = "returned" /\ summary.status = "returned"
    /\ Len(UpstreamBuys) = 1 /\ Len(UpstreamSells) = 2
    /\ UpstreamSells[1].sval = Str("-3E+06")
    /\ summary.value.sells[1].value = Fin(3, 6)
    /\ summary.value.sells[2].lot = Fin(2, 2)
    /\ summary.value.totalSellValue = Chars("3.45M")
    /\ summary.value.netValue = Chars("1.50B")

\* The item a stock record was serialized from, and the items of a response.
UpstreamItem == rawItem[1]
UpstreamResult == OrEmpty(rawWatch[1].data.result)

\* open, high and low of record v against the samples of the raw item.
PricesDerived(raw, v) ==
    LET upstream == OrEmpty(raw.prices)
        p == v.intradayPrices
    IN  /\ Len(p) = Len(upstream)
        /\ \A i \in 1..Len(p) : p[i] = parseNumber(upstream[i])
        /\ IF Len(p) > 0
           THEN /\ v.openPrice = p[1]
                /\ \E i \in 1..Len(p) : v.highPrice = p[i]
                /\ \A i \in 1..Len(p) : JsLe(p[i], v.highPrice)
                /\ \E i \in 1..Len(p) : v.lowPrice = p[i]
                /\ \A i \in 1..Len(p) : JsLe(v.lowPrice, p[i])
                /\ JsLe(v.lowPrice, v.openPrice)
                /\ JsLe(v.openPrice, v.highPrice)
           ELSE /\ v.openPrice = v.lastPrice
                /\ v.highPrice = v.lastPrice
                /\ v.lowPrice = v.lastPrice

\* C6: open, high and low are the first, the greatest and the least of the
\* parsed intraday samples when there are any (so low <= open <= high), and
\* all three are lastPrice when the samples are empty or absent; intradayPrices
\* holds the parsed samples in upstream order.
C6_PricesFromSamples ==
    /\ stock.status = "returned" => PricesDerived(UpstreamItem, stock.value)
    /\ watchlist.status = "returned" =>
          \A i \in 1..Len(watchlist.value.stocks) :
              PricesDerived(UpstreamResult[i], watchlist.value.stocks[i])

C6_Witness ==
    /\ watchlist.status = "returned"
    /\ Len(UpstreamResult) = 2
    /\ UpstreamResult[1].prices = Some(<<Str("100"), Str("105"), Str("98"), Str("102")>>)
    /\ UpstreamResult[2].prices = Some(<<>>)
    /\ watchlist.value.stocks[1].intradayPrices =
          <<Fin(100, 0), Fin(105, 0), Fin(98, 0), Fin(102, 0)>>
    /\ watchlist.value.stocks[1].openPrice = Fin(100, 0)
    /\ watchlist.value.stocks[1].highPrice = Fin(105, 0)
    /\ watchlist.value.stocks[1].lowPrice = Fin(98, 0)
    /\ watchlist.value.stocks[2].openPrice = Fin(9250, 0)
    /\ watchlist.value.stocks[2].highPrice = Fin(9250, 0)
    /\ watchlist.value.stocks[2].lowPrice = Fin(9250, 0)

\* The direction flags of record v against the change of the raw item.
DirectionFlags(raw, v) ==
    /\ v.isPositive <=> JsGt(v.change, Zero)
    /\ v.isNegative <=> JsLt(v.change, Zero)
    /\ ~(v.isPositive /\ v.isNegative)
    /\ (~v.isPositive /\ ~v.isNegative) <=> v.change = Zero
    /\ raw.change \in GainingChanges => v.isPositive
    /\ raw.change \in LosingChanges => v.isNegative
    /\ raw.change \in OtherChanges => ~v.isPositive /\ ~v.isNegative

UpstreamActive(raw) ==
    IF raw.corp_action = None THEN FlagUndefined ELSE raw.corp_action[1].active

\* C8 as stated: a flag takes its default only when the upstream field is
\* absent, and a field that is present keeps its value.
C8_DefaultOnlyWhenAbsent ==
    stock.status = "returned" =>
        LET raw == UpstreamItem
            v == stock.value
            Kept(flag, out, dflt) ==
                IF flag.t = "undefined" THEN out = dflt
                ELSE flag.t = "boolean" /\ out = flag.b
        IN  /\ Kept(UpstreamActive(raw), v.hasCorporateAction, FALSE)
            /\ Kept(raw.uma, v.isUma, FALSE)
            /\ Kept(raw.tradeable, v.tradeable, TRUE)

\* C8: a flag takes its default (hasCorporateAction false, isUma false,
\* tradeable true) when the upstream field is absent or null, and a boolean
\* that is present is kept, so an explicit tradeable = false stays false.
C8_DefaultWhenAbsentOrNull ==
    stock.status = "returned" =>
        LET raw == UpstreamItem
            v == stock.value
            Kept(flag, out, dflt) ==
                IF flag.t \in {"undefined", "null"} THEN out = dflt
                ELSE flag.t = "boolean" /\ out = flag.b
        IN  /\ Kept(UpstreamActive(raw), v.hasCorporateAction, FALSE)
            /\ Kept(raw.uma, v.isUma, FALSE)
            /\ Kept(raw.tradeable, v.tradeable, TRUE)

C8_Witness ==
    /\ stock.status = "returned"
    /\ UpstreamItem.corp_action = None
    /\ UpstreamItem.uma = FlagNull
    /\ UpstreamItem.tradeable = Flag(FALSE)
    /\ stock.value.hasCorporateAction = FALSE
    /\ stock.value.isUma = FALSE
    /\ stock.value.tradeable = FALSE

\* C9: the stocks of a serialized watchlist are as many as the upstream
\* result, the i-th carrying the symbol of the i-th upstream item; an empty or
\* absent result gives an empty stocks sequence and no error.
C9_OneToOne ==
    /\ watchlist.status = "returned" =>
          /\ Len(watchlist.value.stocks) = Len(UpstreamResult)
          /\ \A i \in 1..Len(UpstreamResult) :
                watchlist.value.stocks[i].symbol = UpstreamResult[i].symbol
    /\ watchlist.status # "idle" /\ Len(UpstreamResult) = 0 =>
          watchlist.status = "returned" /\ watchlist.value.stocks = <<>>

C9_Witness ==
    /\ watchlist.status = "returned"
    /\ Len(UpstreamResult) = 3
    /\ UpstreamResult[1].symbol = "GOTO"
    /\ UpstreamResult[2].symbol = "BBCA"
    /\ UpstreamResult[3].symbol = "ASII"
    /\ watchlist.value.stocks[1].symbol = "GOTO"
    /\ watchlist.value.stocks[2].symbol = "BBCA"
    /\ watchlist.value.stocks[3].symbol = "ASII"

\* The call made and its argument.
Called(fn) == call # None /\ call[1].fn = fn /\ outcome.status # "idle"
Arg == call[1].arg

\* A text without its commas and without one leading "+".
StripLocale(cs) ==
    LET noComma == SelectSeq(cs, LAMBDA c : c # ",")
    IN  IF noComma # <<>> /\ noComma[1] = "+" THEN Tail(noComma) ELSE noComma

\* C11: parseNumber removes the thousands-separator commas and a leading "+"
\* before parsing ("+1,234.56" gives 1234.56), keeps a leading "-" as the
\* sign, and gives 0 for an absent, null, empty or unparseable token.
C11_ParseLocaleNumber ==
    Called("parseNumber") /\ Arg.t # "number" =>
        /\ outcome.status = "returned"
        /\ Arg.t \in {"undefined", "null"} => outcome.value = Zero
        /\ Arg.t = "string" =>
            /\ Arg.s = <<>> => outcome.value = Zero
            /\ Arg = Str("+1,234.56") => outcome.value = Fin(123456, -2)
            /\ Arg = Str("-1,234.56") => outcome.value = Fin(-123456, -2)
            /\ LET cleaned == StripLocale(Arg.s)
               IN  IF WellFormedNumeral(cleaned) /\ isFinite(parseFloat(cleaned))
                   THEN outcome.value = parseFloat(cleaned)
                   ELSE outcome.value = Zero

\* body reads as a decimal numeral with exactly f fraction digits that is
\* within half a unit of its last place of the finite, non-negative x.
RoundsTo(body, x, f) ==
    LET n == Len(body)
        ds == IF f = 0 THEN body
              ELSE SubSeq(body, 1, n - f - 1) \o SubSeq(body, n - f + 1, n)
    IN  /\ n >= (IF f = 0 THEN 1 ELSE f + 2)
        /\ f > 0 => body[n - f] = "."
        /\ \A i \in 1..Len(ds) : IsDigit(ds[i])
        /\ LET d == JsAbs(JsSub(Fin(DigitsValue(ds, 1, Len(ds)), -f), x))
           IN  JsLe(JsAdd(d, d), Fin(1, -f))

\* The power of ten and the suffix the magnitude a calls for.
PowerFor(a) ==
    IF JsGe(a, Fin(1, 12)) THEN <<12, <<"T">>, 2>>
    ELSE IF JsGe(a, Fin(1, 9)) THEN <<9, <<"B">>, 2>>
    ELSE IF JsGe(a, Fin(1, 6)) THEN <<6, <<"M">>, 2>>
    ELSE IF JsGe(a, Fin(1, 3)) THEN <<3, <<"K">>, 2>>
    ELSE <<0, <<>>, 0>>

C13_FormatCompactDate ==
    Called("formatDate") =>
        /\ outcome.status = "returned"
        /\ IF Arg.t = "string" /\ Len(Arg.s) = 8
           THEN LET c == Arg.s
                    out == outcome.value
                IN  /\ out.t = "string"
                    /\ out.s = <<c[1], c[2], c[3], c[4], "-", c[5], c[6], "-",
                                 c[7], c[8]>>
                    /\ (\A i \in 1..8 : IsDigit(c[i])) =>
                          SelectSeq(out.s, LAMBDA ch : ch # "-") = c
           ELSE outcome.value = Arg
        /\ Arg = Str("20240315") => outcome.value = Str("2024-03-15")
        /\ Arg = Str("bad") => outcome.value = Str("bad")

C13_Witness ==
    /\ Called("formatDate")
    /\ Arg = Str("19991231")
    /\ outcome = Returned(Str("1999-12-31"))

\* C18: a cell of column 0 is rendered verbatim; a cell of another column
\* whose text without commas and white space matches the pure-numeric
\* pattern is rendered as the broker serializer's formatValue renders its
\* number (same K, M, B, T thresholds and sign rule), and every other text is
\* rendered unchanged.
C18_CellsAsMagnitudes ==
    Called("renderCell") =>
        LET cell == Arg.cell
            cleaned == SelectSeq(cell, LAMBDA c : c # "," /\ c # " ")
        IN  /\ outcome.status = "returned"
            /\ IF Arg.cellIdx = 0 THEN outcome.value = cell
               ELSE IF PureNumeric(cleaned)
               THEN outcome.value = formatValue(parseFloat(cleaned))
               ELSE outcome.value = cell

\* The members of an array by index and those of an object as inserted.
AsInserted(doc) ==
    IF doc.t = "array" THEN doc.items
    ELSE [i \in 1..Len(doc.entries) |-> doc.entries[i].value]

\* The members of a document in one of two orders.
Members(doc, order) ==
    IF order = "inserted" THEN AsInserted(doc) ELSE ObjectValues(doc)

\* The strings of a document, depth first, the members of an object taken in
\* the given order.
RECURSIVE StringsOf(_, _)
RECURSIVE StringsFrom(_, _, _)
StringsOf(doc, order) ==
    IF doc.t = "string" THEN <<doc.s>>
    ELSE IF doc.t \in {"array", "object"}
         THEN StringsFrom(Members(doc, order), 1, order)
    ELSE <<>>

StringsFrom(docs, i, order) ==
    IF i > Len(docs) THEN <<>>
    ELSE StringsOf(docs[i], order) \o StringsFrom(docs, i + 1, order)

HtmlBearing(cs) ==
    \E i \in 1..Len(cs) :
        \/ i + 5 <= Len(cs) /\ SubSeq(cs, i, i + 5) = Chars("<table")
        \/ i + 2 <= Len(cs) /\ SubSeq(cs, i, i + 2) \in {Chars("<tr"), Chars("<td")}

\* The first HTML-bearing string among strings, or null.
FirstHtml(strings) ==
    LET hits == SelectSeq(strings, HtmlBearing)
    IN  IF hits = <<>> THEN None ELSE Some(hits[1])

\* C14 as stated: the result is the first HTML-bearing string in depth-first
\* order with every object's keys visited in insertion order, null when no
\* string matches.
C14_FirstInInsertionOrder ==
    Called("findHtmlContent") =>
        /\ outcome.status = "returned"
        /\ outcome.value = FirstHtml(StringsOf(Arg, "inserted"))

\* C14: findHtmlContent returns a string exactly when some string of the
\* document, at any depth, contains "<table", "<tr" or "<td"; it is then the
\* first such string depth first, an array visited by index and an object in
\* the order of Object.values: integer-like keys ascending, then the other
\* keys as inserted; it returns null when no string matches.
C14_FirstInPropertyOrder ==
    Called("findHtmlContent") =>
        /\ outcome.status = "returned"
        /\ outcome.value = FirstHtml(StringsOf(Arg, "values"))
        /\ outcome.value # None <=>
              \E i \in 1..Len(StringsOf(Arg, "inserted")) :
                  HtmlBearing(StringsOf(Arg, "inserted")[i])

C14_Witness ==
    /\ Called("findHtmlContent")
    /\ Arg = DocObject(<<Entry("message", DocString("ok")),
                         Entry("data", DocObject(<<
                             Entry("b", DocString("note")),
                             Entry("a", DocArray(<<DocObject(<<
                                 Entry("2", DocString("<table>A")),
                                 Entry("1", DocString("<td>C"))>>)>>))>>))>>)
    /\ outcome = Returned(Some(Chars("<td>C")))

\* The rows of a table as written, section after section.
WrittenRows(table) == RowsFrom(table, {"none", "thead", "tbody", "tfoot"}, 1)

\* The trimmed texts of the cells of a row as written.
TextsOfRow(row) ==
    [i \in 1..Len(row) |->
        LET cs == row[i].text
            keep == {k \in 1..Len(cs) : cs[k] # " "}
        IN  IF keep = {} THEN <<>>
            ELSE SubSeq(cs, CHOOSE k \in keep : \A j \in keep : k <= j,
                            CHOOSE k \in keep : \A j \in keep : k >= j)]

\* A table of one header row followed by data rows only, bare or wrapped: a
\* <thead>, if there is one, comes first and holds the header row alone.
HeaderThenData(table) ==
    LET written == WrittenRows(table)
    IN  /\ written # <<>>
        /\ written[1] = HeaderRow
        /\ \A i \in 2..Len(written) : written[i] \in DataRows
        /\ \A k \in 1..Len(table) :
              /\ table[k].tag \in {"none", "thead", "tbody"}
              /\ table[k].tag = "thead" => k = 1 /\ table[k].rows = <<HeaderRow>>

\* C15: a table of one header row and n data rows, wrapped in <thead> and
\* <tbody> or not, parses to one ParsedTable with one header per header cell
\* and exactly n rows, the header row not among them.
C15_HeaderRowNotInRows ==
    ( /\ Called("parseHtmlTable")
      /\ Len(Arg) = 1
      /\ HeaderThenData(Arg[1]) )
    => /\ outcome.status = "returned"
       /\ Len(outcome.value) = 1
       /\ outcome.value[1].headers = TextsOfRow(HeaderRow)
       /\ Len(outcome.value[1].headers) = Len(HeaderRow)
       /\ Len(outcome.value[1].rows) = Len(WrittenRows(Arg[1])) - 1
       /\ \A i \in 1..Len(outcome.value[1].rows) :
             /\ outcome.value[1].rows[i] # TextsOfRow(HeaderRow)
             /\ outcome.value[1].rows[i] = TextsOfRow(WrittenRows(Arg[1])[i + 1])

\* C16: no row of a parsed table is a row without cells or a row whose cells
\* are all empty after trimming, and every row kept lists the trimmed texts
\* of the cells of a written row.
C16_EmptyRowsDropped ==
    Called("parseHtmlTable") =>
        /\ outcome.status = "returned"
        /\ \A t \in 1..Len(outcome.value) :
              \A i \in 1..Len(outcome.value[t].rows) :
                  LET row == outcome.value[t].rows[i]
                  IN  /\ Len(row) > 0
                      /\ \E k \in 1..Len(row) : row[k] # <<>>
                      /\ \E u \in 1..Len(Arg) :
                            \E j \in 1..Len(WrittenRows(Arg[u])) :
                                row = TextsOfRow(WrittenRows(Arg[u])[j])

\* The parse of the t-th table of the call's HTML text on its own.
Alone(t) == parseHtmlTable(<<Arg[t]>>)

RECURSIVE AloneFrom(_)
AloneFrom(t) == IF t > Len(Arg) THEN <<>> ELSE Alone(t) \o AloneFrom(t + 1)

\* C17: the result holds, in document order, one ParsedTable for each table
\* that yields a header cell or a row and none for a table that yields
\* neither; no ParsedTable has both headers and rows empty; a text without
\* tables gives the empty sequence.
C17_OneTablePerYield ==
    Called("parseHtmlTable") =>
        /\ outcome.status = "returned"
        /\ \A i \in 1..Len(outcome.value) :
              outcome.value[i].headers # <<>> \/ outcome.value[i].rows # <<>>
        /\ Arg = <<>> => outcome.value = <<>>
        /\ outcome.value = AloneFrom(1)
        /\ \A t \in 1..Len(Arg) :
              /\ Len(Alone(t)) <= 1
              /\ (\A i \in 1..Len(WrittenRows(Arg[t])) :
                      WrittenRows(Arg[t])[i] = <<>>) => Alone(t) = <<>>
              /\ (WrittenRows(Arg[t]) # <<>> /\ WrittenRows(Arg[t])[1] # <<>>)
                    => Len(Alone(t)) = 1

C17_Witness ==
    /\ Called("parseHtmlTable")
    /\ Arg = << <<Section("none", <<EmptyRow>>)>>,
                <<Section("thead", <<HeaderRow>>), Section("tbody", <<BlankRow>>)>> >>
    /\ Len(outcome.value) = 1
    /\ outcome.value[1].headers = <<Chars("Name"), Chars("Q1")>>

\* C19: serializeBrokerActivity and serializeBrokerActivitySummary return a
\* record without throwing whichever field of the response is absent or
\* malformed; an absent brokers_buy or brokers_sell gives an empty sequence.
C19_BrokerNeverThrows ==
    /\ activity.status # "idle" =>
          /\ activity.status = "returned"
          /\ Len(activity.value.buyTransactions) = Len(UpstreamBuys)
          /\ Len(activity.value.sellTransactions) = Len(UpstreamSells)
    /\ summary.status # "idle" =>
          /\ summary.status = "returned"
          /\ Len(summary.value.buys) = Len(UpstreamBuys)
          /\ Len(summary.value.sells) = Len(UpstreamSells)

\* C20: serializeStock returns a record without throwing whatever the shape
\* of a scalar field: an absent, null, empty, non-numeric or number-typed
\* last, previous, change, percent, volume or intraday sample gives 0, such
\* a bid or offer gives 0 or null, and the other fields are still serialized.
C20_StockNeverThrows ==
    stock.status # "idle" =>
        /\ stock.status = "returned"
        /\ LET raw == UpstreamItem
               v == stock.value
           IN  /\ raw.last \in ShapeTokens => v.lastPrice = Zero
               /\ raw.previous \in ShapeTokens => v.previousClose = Zero
               /\ raw.change \in ShapeTokens => v.change = Zero
               /\ raw.percent \in ShapeTokens => v.changePercent = Zero
               /\ raw.volume \in ShapeTokens => v.volume = Zero
               /\ \A i \in 1..Len(OrEmpty(raw.prices)) :
                     OrEmpty(raw.prices)[i] \in ShapeTokens
                         => v.intradayPrices[i] = Zero
               /\ raw.orderbook # None /\ raw.orderbook[1].bid \in ShapeTokens
                     => v.bid \in {None, Some(Zero)}
               /\ raw.orderbook # None /\ raw.orderbook[1].offer \in ShapeTokens
                     => v.offer \in {None, Some(Zero)}
               /\ v.symbol = raw.symbol

\* C27: volumeFormatted follows the magnitude rule on the absolute value with
\* the sign kept: for every parsed volume v with |v| >= 10^3, negative ones
\* included, it is the leading sign, |v| scaled to 2 decimals and the K, M, B
\* or T suffix chosen from |v|; -2500 gives "-2.50K" as 2500 gives "2.50K".
C27_VolumeSignPreserved ==
    stock.status = "returned" /\ JsGe(JsAbs(stock.value.volume), Fin(1, 3)) =>
        LET v == stock.value.volume
            out == stock.value.volumeFormatted
            pw == PowerFor(JsAbs(v))
            neg == JsLt(v, Zero)
            body == SubSeq(out, (IF neg THEN 2 ELSE 1), Len(out) - Len(pw[2]))
        IN  /\ (Len(out) >= 1 /\ out[1] = "-") <=> neg
            /\ Len(out) > Len(pw[2])
            /\ SubSeq(out, Len(out) - Len(pw[2]) + 1, Len(out)) = pw[2]
            /\ RoundsTo(body, Div10(JsAbs(v), pw[1]), pw[3])
            /\ v = Fin(25, 2) => out = Chars("2.50K")
            /\ v = Fin(-25, 2) => out = Chars("-2.50K")

\* The request being handled, and whether its Authorization header lacks a
\* usable bearer token.
Handled == api[1].request
NoUsableToken(request) ==
    \/ request.authorization = None
    \/ ~StartsWith(request.authorization[1], 1, Chars("Bearer "))
    \/ request.authorization[1] = Chars("Bearer ")

\* The upstream responses received so far that carry a non-2xx status.
FailedResponses ==
    { i \in 1..Len(api[1].responses) :
        ~api[1].responses[i].rejected /\ ~api[1].responses[i].ok }

\* C21: for a request whose type goes through a serializer (watchlist,
\* watchlist-summary, broker, broker-summary), once an upstream response has a
\* non-2xx status no serializer is invoked and the reply is a failure whose
\* message carries the status text of that response; this holds for the list
\* request and for the per-id request of the watchlist fetch.
C21_FailedUpstreamSkipsCore ==
    /\ api # None
    /\ ~NoUsableToken(Handled) /\ Handled.json
    /\ Handled.type \in {Some("watchlist"), Some("watchlist-summary"),
                         Some("broker"), Some("broker-summary")}
    /\ api[1].pc = "done"
    /\ FailedResponses # {}
    => /\ api[1].invoked = <<>>
       /\ api[1].reply[1].status # 200
       /\ \E i \in FailedResponses :
             api[1].reply[1].body.error.statusText
                 = Some(api[1].responses[i].statusText)

\* C23: GET and POST answer every request without a usable bearer token (no
\* Authorization header, a header not starting with "Bearer ", or nothing
\* after that prefix) with status 401 and make no upstream call for it,
\* whatever its type, body and other parameters.
C23_NoTokenNoUpstream ==
    api # None /\ NoUsableToken(Handled) =>
        /\ api[1].reply # None
        /\ api[1].reply[1].status = 401
        /\ api[1].calls = <<>>

\* The parameter a type requires.
Required(type) ==
    IF type \in {"profile", "quote", "financials", "keystats",
                 "price-performance", "stream"} THEN {"symbol"}
    ELSE IF type = "search" THEN {"query"}
    ELSE IF type \in {"broker", "broker-summary", "broker-raw"} THEN {"brokerCode"}
    ELSE {}

\* C24: POST dispatches every name of DataType, sent with a valid token and
\* its required parameter, to an upstream call and answers {success: true,
\* data} when that call succeeds; it answers 400 "Invalid type" only for a
\* name outside DataType, and the default type "profile" is dispatched.
C24_DeclaredTypesDispatched ==
    api # None /\ Handled.method = "POST" /\ Handled.json
        /\ ~NoUsableToken(Handled) =>
        LET type == IF Handled.type = None THEN "profile" ELSE Handled.type[1]
            reply == api[1].reply
        IN  /\ (reply # None /\ reply[1].body = [error |-> Message("Invalid type")])
                  => type \notin DataType
            /\ (type \in DataType /\ Required(type) \subseteq Handled.given)
                  => /\ api[1].calls # <<>>
                     /\ (api[1].pc = "done"
                         /\ \A i \in 1..Len(api[1].responses) :
                               /\ api[1].responses[i].ok
                               /\ api[1].responses[i].body = "payload"
                               /\ api[1].responses[i].ids # <<>>)
                            => /\ reply[1].status = 200
                               /\ reply[1].body.success

\* C26: the watchlist fetch is a two-step sequence: the per-id request is
\* issued only after the list request has completed with a 2xx status, it
\* targets the watchlist_id of the first entry of the list with page=1 and
\* limit=500, and when the list request fails no second request is issued and
\* the fetch fails with the upstream status.
C26_WatchlistTwoSteps ==
    api # None /\ api[1].calls # <<>> /\ api[1].calls[1].fn = "getWatchlist" =>
        LET calls == api[1].calls
            responses == api[1].responses
        IN  /\ Len(calls) <= 2
            /\ calls[1].path = <<"watchlist">>
            /\ Len(calls) = 2 =>
                  /\ Len(responses) >= 1
                  /\ responses[1].ok /\ ~responses[1].rejected
                  /\ responses[1].ids # <<>>
                  /\ calls[2].path = <<"watchlist", responses[1].ids[1]>>
                  /\ {"page=1", "limit=500"} \subseteq calls[2].params
            /\ (Len(responses) >= 1 /\ ~responses[1].ok) =>
                  /\ Len(calls) = 1
                  /\ api[1].pc = "done"
                  /\ api[1].reply[1].status # 200
                  /\ ~responses[1].rejected =>
                        api[1].reply[1].body.error
                            = [failed |-> "getWatchlist",
                               status |-> Some(responses[1].status),
                               statusText |-> Some(responses[1].statusText)]

C26_Witness ==
    /\ api # None
    /\ Len(api[1].calls) = 2
    /\ api[1].responses[1].ids = <<9, 7>>
    /\ api[1].calls[2].path = <<"watchlist", 9>>
    /\ api[1].pc = "done"

\* C25: a token refresh makes a single attempt: with a non-empty refresh
\* token exactly one refresh POST is issued (none with an empty one) and it
\* is never repeated; when the request fails (non-2xx or network error)
\* refreshAccessToken returns false and the stored access token and refresh
\* token are as before; on success the access token is replaced and the
\* refresh token is replaced only when the response carries one.
C25_SingleRefreshAttempt ==
    LET s == session[1]
    IN  session # None =>
        /\ s.posts <= 1 /\ s.upstreamPosts <= s.posts
        /\ s.pc # "idle" => s.posts = 1 /\ s.before[2] # Some("")
        /\ s.returned = None =>
              s.accessToken = s.before[1] /\ s.refreshToken = s.before[2]
        /\ (s.returned # None /\ s.before[2] = Some("")) =>
              /\ s.posts = 0 /\ s.returned = Some(FALSE)
              /\ s.accessToken = s.before[1] /\ s.refreshToken = s.before[2]
        /\ (s.returned # None /\ s.before[2] # Some("")) =>
              /\ s.posts = 1
              /\ IF s.reply = None \/ ~s.reply[1].ok
                 THEN /\ s.returned = Some(FALSE)
                      /\ s.accessToken = s.before[1]
                      /\ s.refreshToken = s.before[2]
                 ELSE /\ s.returned = Some(TRUE)
                      /\ s.accessToken = s.reply[1].accessToken
                      /\ s.refreshToken =
                            IF s.reply[1].refreshToken \in {None, Some("")}
                            THEN s.before[2] ELSE s.reply[1].refreshToken

C25_Witness ==
    /\ session # None
    /\ session[1].attempts = 2
    /\ session[1].returned = Some(TRUE)
    /\ session[1].before = <<Some("a1"), Some("r1")>>
    /\ session[1].accessToken = Some("a2")
    /\ session[1].refreshToken = Some("r1")

\* The page, and whether its last fetch has ended with a request that failed
\* (a non-2xx reply or a thrown error).
Page == ui[1]
RequestFailed ==
    /\ Page.last \in {"done", "failed"}
    /\ \E i \in 1..Len(Page.requests) :
          /\ Page.requests[i].response # None
          /\ Page.requests[i].response[1].kind \in {"bad", "rejected"}

\* C22: when a successfully fetched financial response holds no HTML-bearing
\* string, the financials page takes it as a valid empty result: the locator
\* returns null, the parsed table list is empty without a call of
\* parseHtmlTable, and the error state stays empty.
C22_NoHtmlIsEmptyResult ==
    ui # None /\ Page.page = "financials" /\ Page.last = "done"
        /\ FirstHtml(StringsOf(Page.data[1].doc, "values")) = None =>
        /\ parsedTables(Page.data).found = None
        /\ ~parsedTables(Page.data).parsed
        /\ parsedTables(Page.data).tables = <<>>
        /\ Page.error = ""

C22_Witness ==
    /\ ui # None /\ Page.page = "financials" /\ Page.last = "done"
    /\ Page.data[1].doc =
          DocObject(<<Entry("message", DocString("ok")), Entry("data", DocArray(<<>>))>>)
    /\ parsedTables(Page.data).tables = <<>>
    /\ Page.error = "" /\ ~Page.loading

\* loading holds only while a request of the fetch is in flight, and a fetch
\* with an empty token or an empty required input sets an error and leaves
\* loading false.
LoadingOnlyInFlight ==
    ui # None =>
        /\ Page.loading =>
              /\ Page.last = "pending"
              /\ \E i \in 1..Len(Page.requests) : Page.requests[i].response = None
        /\ (Page.accessToken = "" \/ (NeedsInput(Page.page) /\ Page.input = "")) =>
              /\ ~Page.loading
              /\ Page.requests = <<>>
              /\ Page.fetches > 0 => Page.error # "" /\ Page.last = "refused"

\* C28: on every dashboard page loading is true only while a request started
\* by the fetch is in flight: a fetch with an empty token or empty required
\* input sets an error and never sets loading, and every fetch that sets
\* loading to true sets it back to false in the end, whether the request
\* succeeds, returns a non-2xx status or throws.
C28_LoadingWhileInFlight ==
    /\ []LoadingOnlyInFlight
    /\ \A p \in Pages :
          (ui # None /\ Page.page = p /\ Page.loading) ~> (ui # None /\ ~Page.loading)

C28_Witness ==
    /\ ui # None /\ Page.page = "keystats"
    /\ Page.fetches = 2 /\ Page.last = "failed" /\ ~Page.loading
    /\ Page.requests[1].response = None
    /\ Page.requests[2].response = Some([kind |-> "rejected"])

\* C29: on every dashboard page a fetch in which a request fails (non-2xx
\* reply or thrown error) leaves the data loaded before unchanged: data, the
\* insider page's page number, and on the keystats page both keystats and
\* pricePerformance, also when only the price-performance request fails.
C29_FailedFetchKeepsData ==
    ui # None /\ RequestFailed =>
        /\ Page.data = Page.before.data
        /\ Page.extra = Page.before.extra
        /\ Page.pageNo = Page.before.pageNo

\* C30: on the financials page, whenever the tables are displayed (financials
\* present and not loading) activeTableIndex is 0 or an index of the parsed
\* table list; a fetch resets it to 0 before the response can replace the
\* tables, and a tab click selects an index of the list shown.
C30_ActiveTableIndexValid ==
    ui # None /\ Page.page = "financials" =>
        /\ Page.loading => Page.activeTableIndex = 0
        /\ (Page.data # None /\ ~Page.loading) =>
              \/ Page.activeTableIndex = 0
              \/ Page.activeTableIndex \in 0..(Len(parsedTables(Page.data).tables) - 1)

C30_Witness ==
    /\ ui # None /\ Page.page = "financials"
    /\ Page.data # None /\ ~Page.loading /\ Page.last = "done"
    /\ Page.before.data # None
    /\ Len(parsedTables(Page.before.data).tables) = 3
    /\ Len(parsedTables(Page.data).tables) = 1
    /\ Page.activeTableIndex = 0

====
